---- MODULE Spec2Model ----
(***************************************************************************)
(* Grid aggregation and top-10 extraction of scripts/analyze_geojson.py,   *)
(* with its two callers (lambda_function.lambda_handler and                *)
(* analyze_geojson.lambda_handler): specification Spec.                    *)
(*                                                                         *)
(* The reasoning service: the functions of cache_manager.py and            *)
(* gemini_client.py called one by one (LibSpec), and the request handlers  *)
(* of app.py and cdk/lambda/reasoning-handler/index.py (ReasoningSpec).    *)
(* Two requests handled at the same time by the Flask server               *)
(* (ConcurrentSpec), and download_s3.lambda_handler followed by the        *)
(* analysis (PipelineSpec).                                                *)
(*                                                                         *)
(* Units.  Latitudes and longitudes are integers counting tenths of a      *)
(* degree (10.2 deg is 102), so the cell size LL = 1.0 deg is 10.          *)
(* Concentrations are integers.  An average is the exact quotient          *)
(* sum / count kept as a fraction in lowest terms.  Floating-point         *)
(* rounding is not modelled.                                               *)
(***************************************************************************)
EXTENDS Integers, Sequences, FiniteSets, TLC

\* the grid aggregation
VARIABLES entry, input, file_paths, pc, cur, results, last, response, raised
\* the reasoning service: cache_manager.py, gemini_client.py, app.py and
\* cdk/lambda/reasoning-handler/index.py
VARIABLES service, cache, api_key, call, ret, effects

gridVars == <<entry, input, file_paths, pc, cur, results, last, response, raised>>

svcVars == <<service, cache, api_key, call, ret, effects>>

\* requests handled concurrently by the threads of the Flask server
VARIABLES threads
\* download_s3.lambda_handler: the pages list_objects_v2 returns, the files
\* of /tmp, the list being built and the position in the pages
VARIABLES listing, tmp, downloaded_files, dpc, at

auxVars == <<threads, listing, tmp, downloaded_files, dpc, at>>

vars == <<gridVars, svcVars, auxVars>>

\* no request is being handled concurrently
ThreadsIdle == threads = <<>>

\* download_s3.lambda_handler is not part of the run
DownloadIdle ==
    /\ listing = <<>>
    /\ tmp = <<>>
    /\ downloaded_files = <<>>
    /\ dpc = "idle"
    /\ at = <<>>

\* the reasoning service is not part of a run of the grid aggregation
ServiceIdle ==
    /\ service = "none"
    /\ cache = <<>>
    /\ api_key = ""
    /\ call = <<>>
    /\ ret = <<>>
    /\ effects = <<>>

-----------------------------------------------------------------------------
(* Bounds of the model *)

\* files in one batch
MaxFiles == 2

\* observations (and grid columns) of the wide files RowFile, RowTieFile
RowCells == 12

-----------------------------------------------------------------------------
(* Program constants *)

\* LL = 1.0 (one degree), in tenths of a degree
LL == 10

\* top_n = min(10, ...) and [:10]
TopN == 10

\* The value np.isnan recognises.  Concentrations of the model are >= 0.
NaN == -1

IsNaN(x) == x = NaN

-----------------------------------------------------------------------------
(* Numeric helpers *)

Range(s) == {s[k] : k \in 1..Len(s)}

MinOf(a, b) == IF a <= b THEN a ELSE b

SeqMin(s) == CHOOSE x \in Range(s) : \A y \in Range(s) : x <= y

SeqMax(s) == CHOOSE x \in Range(s) : \A y \in Range(s) : x >= y

RECURSIVE SumSeq(_)
SumSeq(s) == IF s = <<>> THEN 0 ELSE Head(s) + SumSeq(Tail(s))

RECURSIVE Gcd(_, _)
Gcd(a, b) == IF b = 0 THEN a ELSE Gcd(b, a % b)

\* grid_sum / grid_count for a cell with grid_count > 0: the exact quotient
Divide(sum, count) ==
    LET g == Gcd(sum, count)
    IN  [num |-> sum \div g, den |-> count \div g]

\* a < b on quotients
AvgLess(a, b) == a.num * b.den < b.num * a.den

Take(s, n) == SubSeq(s, 1, MinOf(n, Len(s)))

\* a numpy array: the function f with domain 1..n as an explicit sequence
AsArray(f) == f \o <<>>

\* np.arange(start, stop, step) with step > 0
Arange(start, stop, step) ==
    LET n == IF stop > start THEN (stop - start + step - 1) \div step ELSE 0
    IN  AsArray([k \in 1..n |-> start + (k - 1) * step])

\* np.digitize with right=True: bins[i-1] < x <= bins[i]
DigitizeRight(x, bins) == Cardinality({k \in 1..Len(bins) : bins[k] < x})

\* np.digitize(x, bins) for increasing bins, right=False:
\* the i with bins[i-1] <= x < bins[i]
Digitize(x, bins) == Cardinality({k \in 1..Len(bins) : bins[k] <= x})

-----------------------------------------------------------------------------
(* One file: lines 24-92 of analyze_and_convert_to_geojson.                *)
(* The three parallel arrays latitude, longitude, xco2 of a file are kept  *)
(* as one sequence of records [lat, lon, xco2].                            *)

\* no masking: the NaN readings stay in the arrays
MaskNone(obs) == obs

\* mask_valid = ~np.isnan(xco2); lat, lon, xco2 = ...[mask_valid]
MaskValid(obs) == SelectSeq(obs, LAMBDA o : ~IsNaN(o.xco2))

Lat(m) == AsArray([k \in 1..Len(m) |-> m[k].lat])

Lon(m) == AsArray([k \in 1..Len(m) |-> m[k].lon])

\* a grid aligned to whole multiples of LL instead of lat.min()
LatGridAligned(m) ==
    Arange((SeqMin(Lat(m)) \div LL) * LL, SeqMax(Lat(m)) + LL, LL)

\* lat_grid = np.arange(lat.min(), lat.max() + LL, LL)
LatGrid(m) == Arange(SeqMin(Lat(m)), SeqMax(Lat(m)) + LL, LL)

\* lon_grid = np.arange(lon.min(), lon.max() + LL, LL)
LonGrid(m) == Arange(SeqMin(Lon(m)), SeqMax(Lon(m)) + LL, LL)

\* lat_idx = np.digitize(lat, lat_grid) - 1
LatIdx(m, lat_grid) ==
    AsArray([k \in 1..Len(m) |-> Digitize(m[k].lat, lat_grid) - 1])

\* lon_idx = np.digitize(lon, lon_grid) - 1
LonIdx(m, lon_grid) ==
    AsArray([k \in 1..Len(m) |-> Digitize(m[k].lon, lon_grid) - 1])

\* valid_mask = (lat_idx >= 0) & (lat_idx < len(lat_grid)-1)
\*            & (lon_idx >= 0) & (lon_idx < len(lon_grid)-1)
ValidMask(lat_idx, lon_idx, lat_grid, lon_grid) ==
    AsArray([k \in DOMAIN lat_idx |->
                /\ lat_idx[k] >= 0
                /\ lat_idx[k] < Len(lat_grid) - 1
                /\ lon_idx[k] >= 0
                /\ lon_idx[k] < Len(lon_grid) - 1])

\* the index set of an array of shape (len(lat_grid)-1, len(lon_grid)-1)
GridCells(lat_grid, lon_grid) ==
    (0..(Len(lat_grid) - 2)) \X (0..(Len(lon_grid) - 2))

\* The grid of one file with at least one surviving observation:
\* grid_sum and grid_count after the two np.add.at calls.
Grid(m) ==
    LET lat_grid == LatGrid(m)
        lon_grid == LonGrid(m)
        lat_idx == LatIdx(m, lat_grid)
        lon_idx == LonIdx(m, lon_grid)
        valid_mask == ValidMask(lat_idx, lon_idx, lat_grid, lon_grid)
        At(c, k) == valid_mask[k] /\ lat_idx[k] = c[1] /\ lon_idx[k] = c[2]
    IN  [lat_grid |-> lat_grid,
         lon_grid |-> lon_grid,
         grid_sum |-> [c \in GridCells(lat_grid, lon_grid) |->
             SumSeq([k \in 1..Len(m) |-> IF At(c, k) THEN m[k].xco2 ELSE 0])],
         grid_count |-> [c \in GridCells(lat_grid, lon_grid) |->
             SumSeq([k \in 1..Len(m) |-> IF At(c, k) THEN 1 ELSE 0])]]

\* valid_indices = np.where(~np.isnan(grid_avg)): the cells with
\* grid_count > 0, in row-major order
ValidIndices(g) ==
    LET nrows == Len(g.lat_grid) - 1
        ncols == Len(g.lon_grid) - 1
        all == [n \in 1..(nrows * ncols) |->
                   <<(n - 1) \div ncols, (n - 1) % ncols>>]
    IN  SelectSeq(all, LAMBDA c : g.grid_count[c] > 0)

\* valid_values = grid_avg[valid_i, valid_j]
ValidValues(g) ==
    LET vi == ValidIndices(g)
    IN  AsArray([n \in 1..Len(vi) |->
                     Divide(g.grid_sum[vi[n]], g.grid_count[vi[n]])])

\* one candidate too few
Top_nShort(n) == MinOf(TopN - 1, n)

\* top_n = min(10, len(valid_values))
Top_n(n) == MinOf(TopN, n)

\* np.argsort(valid_values)[::-1] restricted to the positions S.  The
\* default sort kind is not stable, so the order among equal values is any
\* order: the result is the set of all descending arrangements.
RECURSIVE ArgsortDesc(_, _)
ArgsortDesc(vals, S) ==
    IF S = {} THEN {<<>>}
    ELSE LET mx == {k \in S : \A l \in S : ~AvgLess(vals[k], vals[l])}
         IN  UNION {{<<k>> \o r : r \in ArgsortDesc(vals, S \ {k})} : k \in mx}

\* top_idx = np.argsort(valid_values)[::-1][:top_n], every possible outcome
TopIdx(vals) ==
    {Take(o, Top_n(Len(vals))) : o \in ArgsortDesc(vals, 1..Len(vals))}

\* the dict appended to results for cell (i, j)
Candidate(g, c, avg) ==
    [lat_min |-> g.lat_grid[c[1] + 1],
     lat_max |-> g.lat_grid[c[1] + 1] + LL,
     lon_min |-> g.lon_grid[c[2] + 1],
     lon_max |-> g.lon_grid[c[2] + 1] + LL,
     avg_co2 |-> avg]

\* the candidates of one file, for k in range(top_n)
FileCandidates(g, top_idx) ==
    LET vi == ValidIndices(g)
        vv == ValidValues(g)
    IN  [k \in 1..Len(top_idx) |-> Candidate(g, vi[top_idx[k]], vv[top_idx[k]])]

\* without the guard of line 36: lat.min() of an empty array raises
FileOutcomeNoGuard(f) ==
    IF ~f.readable \/ Len(MaskValid(f.obs)) = 0 THEN "raise" ELSE "aggregate"

\* What the loop body does with a file: nc.Dataset or ds.variables[...]
\* raises, the file has no surviving observation (continue), or it is
\* aggregated.
FileOutcome(f) ==
    IF ~f.readable THEN "raise"
    ELSE IF Len(MaskValid(f.obs)) = 0 THEN "continue"
    ELSE "aggregate"

-----------------------------------------------------------------------------
(* After the loop: lines 94-120 *)

\* sorted(results, key=lambda x: x['avg_co2'], reverse=True): sorted is
\* stable, also with reverse=True
\* a descending sort that puts each element before the equal ones that
\* precede it in s
RECURSIVE SortedDescUnstable(_)
SortedDescUnstable(s) ==
    IF s = <<>> THEN <<>>
    ELSE LET r == SortedDescUnstable(SubSeq(s, 1, Len(s) - 1))
             c == s[Len(s)]
             p == Cardinality({k \in 1..Len(r) :
                                  AvgLess(c.avg_co2, r[k].avg_co2)})
         IN  SubSeq(r, 1, p) \o <<c>> \o SubSeq(r, p + 1, Len(r))

RECURSIVE SortedDesc(_)
SortedDesc(s) ==
    IF s = <<>> THEN <<>>
    ELSE LET r == SortedDesc(SubSeq(s, 1, Len(s) - 1))
             c == s[Len(s)]
             p == Cardinality({k \in 1..Len(r) :
                                  ~AvgLess(r[k].avg_co2, c.avg_co2)})
         IN  SubSeq(r, 1, p) \o <<c>> \o SubSeq(r, p + 1, Len(r))

\* the first ten results, not sorted
GlobalFirst10(res) == Take(res, TopN)

\* global_top10 = sorted(...)[:10]
GlobalTop10(res) == Take(SortedDesc(res), TopN)

\* (a + b) / 2; a + b is even for the bounds of a cell, LL being even
Half(x) == x \div 2

\* coordinates written latitude first
FeatureLatFirst(g) ==
    [type |-> "Feature",
     geometry |-> [type |-> "Point",
                   coordinates |-> <<Half(g.lat_min + g.lat_max),
                                     Half(g.lon_min + g.lon_max)>>],
     properties |-> [avg_co2 |-> g.avg_co2,
                     lat_min |-> g.lat_min,
                     lat_max |-> g.lat_max,
                     lon_min |-> g.lon_min,
                     lon_max |-> g.lon_max]]

\* the feature built from the candidate g
Feature(g) ==
    [type |-> "Feature",
     geometry |-> [type |-> "Point",
                   coordinates |-> <<Half(g.lon_min + g.lon_max),
                                     Half(g.lat_min + g.lat_max)>>],
     properties |-> [avg_co2 |-> g.avg_co2,
                     lat_min |-> g.lat_min,
                     lat_max |-> g.lat_max,
                     lon_min |-> g.lon_min,
                     lon_max |-> g.lon_max]]

Features(top) == [k \in 1..Len(top) |-> Feature(top[k])]

\* the 200 response; body is the dict that json.dumps serialises
GeoJsonResponse(features) ==
    [statusCode |-> 200,
     body |-> [type |-> "FeatureCollection", features |-> features]]

ErrorResponse(code, msg) == [statusCode |-> code, body |-> [error |-> msg]]

\* no response returned (yet)
NoResponse == ErrorResponse(0, "")

\* f.endswith(".nc4")
EndsWithNc4(f) == f.ext = ".nc4"

\* the check of line 12 left out
NeverEmpty(fp) == FALSE

\* if not file_paths (line 12)
NoValidFiles(fp) == fp = <<>>

-----------------------------------------------------------------------------
(* Inputs *)

Obs(lat, lon, xco2) == [lat |-> lat, lon |-> lon, xco2 |-> xco2]

\* a NaN reading south-west of the others; two readings of one cell; a
\* reading one cell north of the first and exactly LL north of the second
ObsList == <<Obs(90, 190, NaN), Obs(100, 200, 400), Obs(105, 207, 410),
             Obs(115, 203, 400)>>

NcFile(obs) == [ext |-> ".nc4", readable |-> TRUE, obs |-> obs]

\* the file holding the observations of ObsList at the positions S
SubFile(S) == NcFile(SelectSeq(ObsList, LAMBDA o : \E k \in S : ObsList[k] = o))

\* Scenario A of the specification
ScenarioA ==
    NcFile(<<Obs(102, 203, 400), Obs(102, 203, 410), Obs(109, 209, 5)>>)

\* RowCells readings in RowCells different cells of one grid row, with
\* concentrations base, base + 2, ...
RowFile(base) ==
    NcFile([k \in 1..RowCells |->
        Obs(100 + 5 * ((k - 1) % 2),
            200 + 10 * (k - 1) + (IF k = RowCells THEN 5 ELSE 0),
            base + 2 * (k - 1))])

\* as RowFile, the three lowest concentrations being equal
RowTieFile(base) ==
    NcFile([k \in 1..RowCells |->
        Obs(100 + 5 * ((k - 1) % 2),
            200 + 10 * (k - 1) + (IF k = RowCells THEN 5 ELSE 0),
            base + 2 * (IF k <= 3 THEN 0 ELSE k - 3))])

\* two cells of one grid column whose average is the tenth highest
\* concentration of RowFile(base)
CutOffTieFile(base) ==
    NcFile(<<Obs(100, 200, base + 2 * (RowCells - TopN)),
             Obs(115, 203, base + 2 * (RowCells - TopN))>>)

\* a file nc.Dataset cannot open, or without the three arrays
Unreadable == [ext |-> ".nc4", readable |-> FALSE, obs |-> <<>>]

\* a path that does not end with .nc4
NotNc4 == [ext |-> ".txt", readable |-> TRUE, obs |-> <<>>]

FilePool ==
    {SubFile(S) : S \in SUBSET (1..Len(ObsList))}
        \cup {ScenarioA, RowFile(500), RowTieFile(501), CutOffTieFile(500),
              Unreadable, NotNc4}

Batches == UNION {[1..n -> FilePool] : n \in 0..MaxFiles}

\* analyze_and_convert_to_geojson called directly, through
\* lambda_function.lambda_handler, or through analyze_geojson.lambda_handler
Entries == {"analyze", "lambda_function", "analyze_lambda"}

\* `last` before any file was aggregated, and after a file without
\* surviving observations
NoGrid ==
    [file |-> 0, extent |-> <<>>, lat_grid |-> <<>>, lon_grid |-> <<>>,
     grid_sum |-> <<>>, grid_count |-> <<>>, cands |-> <<>>]

-----------------------------------------------------------------------------
(* The state machine *)

Init ==
    /\ entry \in Entries
    /\ input \in Batches
    /\ file_paths = <<>>
    /\ pc = "start"
    /\ cur = 0
    /\ results = <<>>
    /\ last = NoGrid
    /\ response = NoResponse
    /\ raised = FALSE
    /\ ServiceIdle
    /\ ThreadsIdle
    /\ DownloadIdle

\* lambda_function.lambda_handler up to its call of
\* analyze_and_convert_to_geojson; input is downloaded_files
LambdaFunctionHandler ==
    /\ pc = "start"
    /\ entry = "lambda_function"
    /\ IF input = <<>>
       THEN /\ response' = ErrorResponse(404, "No files downloaded")
            /\ pc' = "done"
            /\ UNCHANGED file_paths
       ELSE /\ file_paths' = input
            /\ pc' = "analyze"
            /\ UNCHANGED response
    /\ UNCHANGED <<svcVars, auxVars, entry, input, cur, results, last, raised>>

\* analyze_geojson.lambda_handler up to its call of
\* analyze_and_convert_to_geojson; input is the files its search meets
\* (/tmp/test.nc4, or else the directory listing)
AnalyzeLambdaHandler ==
    /\ pc = "start"
    /\ entry = "analyze_lambda"
    /\ LET existing_files == SelectSeq(input, EndsWithNc4)
       IN  IF existing_files = <<>>
           THEN /\ response' = ErrorResponse(404, "No .nc4 files found")
                /\ pc' = "done"
                /\ UNCHANGED file_paths
           ELSE /\ file_paths' = existing_files
                /\ pc' = "analyze"
                /\ UNCHANGED response
    /\ UNCHANGED <<svcVars, auxVars, entry, input, cur, results, last, raised>>

\* analyze_and_convert_to_geojson, lines 10-21
Analyze ==
    /\ \/ pc = "analyze"
       \/ pc = "start" /\ entry = "analyze"
    /\ LET arg == IF pc = "start" THEN input ELSE file_paths
           filtered == SelectSeq(arg, EndsWithNc4)
       IN  /\ file_paths' = filtered
           /\ IF NoValidFiles(filtered)
              THEN /\ response' = ErrorResponse(400, "No valid .nc4 files found.")
                   /\ pc' = "done"
                   /\ UNCHANGED cur
              ELSE /\ cur' = 1
                   /\ pc' = "loop"
                   /\ UNCHANGED response
    /\ results' = <<>>
    /\ UNCHANGED <<svcVars, auxVars, entry, input, last, raised>>

\* an exception leaves analyze_and_convert_to_geojson: only
\* analyze_geojson.lambda_handler catches it (lines 145-150)
FileRaises ==
    /\ FileOutcome(file_paths[cur]) = "raise"
    /\ pc' = "done"
    /\ IF entry = "analyze_lambda"
       THEN /\ response' = ErrorResponse(500, "exception")
            /\ UNCHANGED raised
       ELSE /\ raised' = TRUE
            /\ UNCHANGED response
    /\ UNCHANGED <<svcVars, auxVars, entry, input, file_paths, cur, results, last>>

\* if len(lat) == 0: continue
FileContinue ==
    /\ FileOutcome(file_paths[cur]) = "continue"
    /\ cur' = cur + 1
    /\ last' = [NoGrid EXCEPT !.file = cur]
    /\ UNCHANGED <<svcVars, auxVars, entry, input, file_paths, pc, results, response, raised>>

\* lines 39-92
FileAggregate ==
    /\ FileOutcome(file_paths[cur]) = "aggregate"
    /\ \E m \in {MaskValid(file_paths[cur].obs)} : \E g \in {Grid(m)} :
           \E top_idx \in TopIdx(ValidValues(g)) :
               \E cands \in {FileCandidates(g, top_idx)} :
                   /\ results' = results \o cands
                   /\ last' = [file |-> cur,
                               extent |-> <<SeqMin(Lat(m)), SeqMax(Lat(m)),
                                            SeqMin(Lon(m)), SeqMax(Lon(m))>>,
                               lat_grid |-> g.lat_grid,
                               lon_grid |-> g.lon_grid,
                               grid_sum |-> g.grid_sum,
                               grid_count |-> g.grid_count,
                               cands |-> cands]
    /\ cur' = cur + 1
    /\ UNCHANGED <<svcVars, auxVars, entry, input, file_paths, pc, response, raised>>

\* one iteration of for tmp_file in file_paths
ProcessFile ==
    /\ pc = "loop"
    /\ cur <= Len(file_paths)
    /\ (FileRaises \/ FileContinue \/ FileAggregate)

\* lines 94-120
Merge ==
    /\ pc = "loop"
    /\ cur > Len(file_paths)
    /\ response' = GeoJsonResponse(Features(GlobalTop10(results)))
    /\ pc' = "done"
    /\ UNCHANGED <<svcVars, auxVars, entry, input, file_paths, cur, results, last, raised>>

Next ==
    \/ LambdaFunctionHandler
    \/ AnalyzeLambdaHandler
    \/ Analyze
    \/ ProcessFile
    \/ Merge

Spec == Init /\ [][Next]_vars

-----------------------------------------------------------------------------
(* Reference definitions used by the properties below.  They restate what  *)
(* the specification says, independently of the operators above.           *)

\* the observations of a file whose concentration is a number
Surviving(obs) == SelectSeq(obs, LAMBDA o : o.xco2 # NaN)

\* the cell of the specification: (floor((lat - lat_min) / L),
\* floor((lon - lon_min) / L)), lat_min and lon_min taken over v
FloorCell(o, v) ==
    <<(o.lat - SeqMin(Lat(v))) \div LL, (o.lon - SeqMin(Lon(v))) \div LL>>

\* the observations of v lying in the cell c
InCell(v, c) == SelectSeq(v, LAMBDA o : FloorCell(o, v) = c)

Xco2Of(v) == [k \in 1..Len(v) |-> v[k].xco2]

\* the cells occupied by the observations v
OccupiedCells(v) == {FloorCell(v[k], v) : k \in 1..Len(v)}

\* the file whose aggregation `last` records
LastFile == file_paths[last.file]

\* the response is a 200 carrying a feature collection
Returned200 == pc = "done" /\ response.statusCode = 200

AvgsOf(cands) == [k \in 1..Len(cands) |-> cands[k].avg_co2]

FeatureAvgs == [k \in 1..Len(response.body.features) |->
                   response.body.features[k].properties.avg_co2]

-----------------------------------------------------------------------------
(* C1 *)

\* C1: every candidate derived from a file has as avg_co2 the exact mean of
\* the valid (non-NaN) observations of that file whose cell index
\* (floor((lat - lat_min)/L), floor((lon - lon_min)/L)) is the candidate's
\* cell, and that cell holds at least one valid observation.
C1_CellAverage ==
    (last.file > 0 /\ last.cands # <<>>) =>
        LET v == Surviving(LastFile.obs)
        IN  \A n \in 1..Len(last.cands) :
                LET c == last.cands[n]
                    cell == <<(c.lat_min - SeqMin(Lat(v))) \div LL,
                              (c.lon_min - SeqMin(Lon(v))) \div LL>>
                    inside == InCell(v, cell)
                IN  /\ Len(inside) > 0
                    /\ c.avg_co2.num * Len(inside)
                           = SumSeq(Xco2Of(inside)) * c.avg_co2.den

\* a file with a NaN reading and two different readings in one cell has
\* been aggregated into a candidate
C1_Witness ==
    /\ last.file > 0
    /\ \E k \in 1..Len(LastFile.obs) : LastFile.obs[k].xco2 = NaN
    /\ \E n \in 1..Len(last.cands) : last.cands[n].avg_co2 = Divide(810, 2)

-----------------------------------------------------------------------------
(* C2 *)

\* C2: a file with at least one valid concentration yields min(10, N)
\* candidates, N being the number of distinct cells occupied by its valid
\* observations (also for a single observation, or one shared latitude).
C2_CandidateCount ==
    (last.file > 0 /\ Surviving(LastFile.obs) # <<>>) =>
        Len(last.cands)
            = MinOf(10, Cardinality(OccupiedCells(Surviving(LastFile.obs))))

-----------------------------------------------------------------------------
(* C3 *)

\* the averages of all non-empty grid cells of the files fp, not truncated
RECURSIVE AllCellAvgs(_)
AllCellAvgs(fp) ==
    IF fp = <<>> THEN <<>>
    ELSE LET v == Surviving(Head(fp).obs)
         IN  (IF v = <<>> THEN <<>> ELSE ValidValues(Grid(v)))
                 \o AllCellAvgs(Tail(fp))

\* averages in non-increasing order
RECURSIVE SortAvgs(_)
SortAvgs(s) ==
    IF s = <<>> THEN <<>>
    ELSE LET r == SortAvgs(Tail(s))
             p == Cardinality({k \in 1..Len(r) : AvgLess(Head(s), r[k])})
         IN  SubSeq(r, 1, p) \o <<Head(s)>> \o SubSeq(r, p + 1, Len(r))

\* C3: truncating each file to its top 10, concatenating and re-ranking
\* gives the averages, in order, of the 10 best cells of the un-truncated
\* union of all files' non-empty cells.
C3_TruncationLossless ==
    Returned200 =>
        FeatureAvgs = Take(SortAvgs(AllCellAvgs(file_paths)), 10)

\* two files, one of them with more than 10 non-empty cells, gave 10
\* features
C3_Witness ==
    /\ Returned200
    /\ Len(file_paths) >= 2
    /\ Len(AllCellAvgs(file_paths)) > Len(results)
    /\ Len(response.body.features) = 10

-----------------------------------------------------------------------------
(* C4 *)

NumAbove(avgs, a) == Cardinality({k \in 1..Len(avgs) : AvgLess(a, avgs[k])})

\* C4: the output holds min(10, number of candidates collected) features,
\* each built from a collected candidate, and every candidate with an
\* average strictly greater than that of some feature is in the output.
C4_GlobalTop10 ==
    Returned200 =>
        /\ Len(response.body.features) = MinOf(10, Len(results))
        /\ \A k \in 1..Len(response.body.features) :
               /\ \E i \in 1..Len(results) :
                      results[i] = response.body.features[k].properties
               /\ NumAbove(AvgsOf(results), FeatureAvgs[k])
                      = NumAbove(FeatureAvgs, FeatureAvgs[k])

\* two files with 10 candidates each; the 10 features come from both
C4_Witness ==
    /\ Returned200
    /\ Len(file_paths) = 2
    /\ Len(results) = 20
    /\ Len(response.body.features) = 10
    /\ \E k \in 1..10, i \in 1..10 :
           response.body.features[k].properties = results[i]
    /\ \E k \in 1..10, i \in 11..20 :
           response.body.features[k].properties = results[i]

-----------------------------------------------------------------------------
(* C5 *)

\* C5: the NaN observations of a file change nothing: extent, sums, counts
\* and candidates are those of the file without its NaN observations.
C5_NaNIgnored ==
    last.file > 0 =>
        LET v == Surviving(LastFile.obs)
        IN  IF v = <<>> THEN last = [NoGrid EXCEPT !.file = last.file]
            ELSE LET g == Grid(v)
                 IN  /\ last.extent = <<SeqMin(Lat(v)), SeqMax(Lat(v)),
                                        SeqMin(Lon(v)), SeqMax(Lon(v))>>
                     /\ last.grid_sum = g.grid_sum
                     /\ last.grid_count = g.grid_count
                     /\ \E t \in TopIdx(ValidValues(g)) :
                            last.cands = FileCandidates(g, t)

\* a file with a NaN reading south of all its valid readings produced a
\* candidate
C5_Witness ==
    /\ last.file > 0
    /\ last.cands # <<>>
    /\ \E k \in 1..Len(LastFile.obs) :
           /\ LastFile.obs[k].xco2 = NaN
           /\ LastFile.obs[k].lat < last.extent[1]

-----------------------------------------------------------------------------
(* C6 *)

\* C6 as claimed: Scenario A gives one candidate covering
\* [10.0, 11.0) x [20.0, 21.0) with average (400 + 410 + 5) / 3.
C6_ScenarioA_Original ==
    (last.file > 0 /\ LastFile = ScenarioA) =>
        last.cands = <<[lat_min |-> 100, lat_max |-> 110,
                        lon_min |-> 200, lon_max |-> 210,
                        avg_co2 |-> Divide(815, 3)]>>

\* C6 amended: Scenario A gives one candidate with average
\* (400 + 410 + 5) / 3; its cell starts at the file's own minimum latitude
\* and longitude, [10.2, 11.2) x [20.3, 21.3).
C6_ScenarioA ==
    (last.file > 0 /\ LastFile = ScenarioA) =>
        last.cands = <<[lat_min |-> 102, lat_max |-> 112,
                        lon_min |-> 203, lon_max |-> 213,
                        avg_co2 |-> Divide(815, 3)]>>

\* the Scenario A file has been aggregated into a candidate
C6_Witness ==
    /\ last.file > 0
    /\ LastFile = ScenarioA
    /\ Len(last.cands) = 1
    /\ Len(file_paths) = 1

-----------------------------------------------------------------------------
(* C7 *)

\* a readable .nc4 file with observations, all of them NaN
AllNaNFile(f) ==
    /\ f.readable
    /\ f.obs # <<>>
    /\ \A k \in 1..Len(f.obs) : f.obs[k].xco2 = NaN

\* C7: processing a file whose concentrations are all NaN adds no
\* candidate, raises nothing, returns no error and leaves the candidates
\* of the other files as they are, the loop going on to the next file; and
\* when the loop ends without any candidate the response is a 200 with an
\* empty features list.
C7_AllNaN ==
    [][/\ (pc = "loop" /\ cur <= Len(file_paths)
              /\ AllNaNFile(file_paths[cur]))
           => /\ results' = results
              /\ pc' = "loop"
              /\ cur' = cur + 1
              /\ raised' = FALSE
              /\ response' = response
              /\ last'.cands = <<>>
       /\ (pc = "loop" /\ cur > Len(file_paths) /\ results = <<>>)
           => /\ pc' = "done"
              /\ raised' = FALSE
              /\ response' = [statusCode |-> 200,
                              body |-> [type |-> "FeatureCollection",
                                        features |-> <<>>]]]_vars

\* a batch made of all-NaN files has been answered with a 200
C7_Witness ==
    /\ Returned200
    /\ file_paths # <<>>
    /\ \A k \in 1..Len(file_paths) : AllNaNFile(file_paths[k])
    /\ response.body.features = <<>>

-----------------------------------------------------------------------------
(* C8 *)

-----------------------------------------------------------------------------
(* C9 *)

Readable(fp) == SelectSeq(fp, LAMBDA f : f.readable)

\* C9: a file that cannot be read fails alone: the batch is answered as
\* the same batch without that file would be.
C9_ErrorConfined ==
    (/\ pc = "done"
     /\ \E k \in 1..Len(file_paths) : ~file_paths[k].readable
     /\ \E k \in 1..Len(file_paths) : file_paths[k].readable)
        => /\ raised = FALSE
           /\ response.statusCode = 200
           /\ FeatureAvgs = Take(SortAvgs(AllCellAvgs(Readable(file_paths))), 10)

-----------------------------------------------------------------------------
(* C10 *)

\* C10: every output feature is built from one candidate: a Point at
\* [(lon_min + lon_max)/2, (lat_min + lat_max)/2], longitude first, with
\* that candidate's avg_co2 and bounds as properties, lat_max = lat_min + L
\* and lon_max = lon_min + L; there are at most 10 features.
C10_Features ==
    Returned200 =>
        /\ response.body.type = "FeatureCollection"
        /\ Len(response.body.features) <= 10
        /\ \A k \in 1..Len(response.body.features) :
               LET f == response.body.features[k]
                   q == f.properties
               IN  /\ f.type = "Feature"
                   /\ f.geometry.type = "Point"
                   /\ Len(f.geometry.coordinates) = 2
                   /\ 2 * f.geometry.coordinates[1] = q.lon_min + q.lon_max
                   /\ 2 * f.geometry.coordinates[2] = q.lat_min + q.lat_max
                   /\ q.lat_max = q.lat_min + LL
                   /\ q.lon_max = q.lon_min + LL
                   /\ \E i \in 1..Len(results) : results[i] = q

\* a 200 response with 10 features
C10_Witness ==
    /\ Returned200
    /\ Len(response.body.features) = 10

-----------------------------------------------------------------------------
(* The reasoning service.                                                  *)
(*                                                                         *)
(* Units.  A float is an integer counting hundredths (35.68 is 3568).  A   *)
(* Python str that is formatted or hashed is the sequence of its           *)
(* characters; other texts are TLA+ strings.                               *)

\* str(d) of one decimal digit
Digit(d) == <<"0", "1", "2", "3", "4", "5", "6", "7", "8", "9">>[d + 1]

\* str(n) of a natural number
RECURSIVE Digits(_)
Digits(n) == IF n < 10 THEN <<Digit(n)>>
             ELSE Append(Digits(n \div 10), Digit(n % 10))

\* str(x) of a float, as an f-string formats it: sign, integer part, point,
\* the shortest fraction that reads back as x (at least one digit)
FloatStr(x) ==
    LET a == IF x < 0 THEN 0 - x ELSE x
        frac == a % 100
        fracStr == IF frac % 10 = 0 THEN <<Digit(frac \div 10)>>
                   ELSE <<Digit(frac \div 10), Digit(frac % 10)>>
    IN  (IF x < 0 THEN <<"-">> ELSE <<>>)
            \o Digits(a \div 100) \o <<".">> \o fracStr

\* f"{lat}{lon}{date}": the key string without its separators
key_string_unseparated(lat, lon, date) ==
    FloatStr(lat) \o FloatStr(lon) \o date

\* key_string = f"{lat}_{lon}_{date}"
key_string(lat, lon, date) ==
    FloatStr(lat) \o <<"_">> \o FloatStr(lon) \o <<"_">> \o date

\* hashlib.sha256(s.encode('utf-8')).hexdigest(); the digest is taken to be
\* injective, so it is the tagged string itself
Sha256(s) == <<"sha256", s>>

\* cache_manager.generate_cache_key
generate_cache_key(lat, lon, date) == Sha256(key_string(lat, lon, date))

\* index.generate_cache_key of the Lambda reasoning handler
lambda_generate_cache_key(lat, lon, date) == Sha256(key_string(lat, lon, date))

-----------------------------------------------------------------------------
(* Python values and outcomes of a call *)

\* a Python / JSON value: t is its type, v its content
None == [t |-> "none", v |-> <<>>]
Str(x) == [t |-> "str", v |-> x]
Bool(b) == [t |-> "bool", v |-> IF b THEN <<"True">> ELSE <<"False">>]
Dict(d) == [t |-> "dict", v |-> d]

\* a call returns a value or raises an exception of class e
Return(x) == [raised |-> FALSE, exc |-> "", value |-> x]
Raise(e) == [raised |-> TRUE, exc |-> e, value |-> None]

-----------------------------------------------------------------------------
(* cache_manager.py: the cache file cache.json *)

\* what json.load finds in the file: text that is not JSON, a JSON value that
\* is not an object (null, a list), or an object mapping keys to entries
NotJson == [t |-> "invalid", v |-> <<>>]
JsonNull == [t |-> "null", v |-> <<>>]
JsonList == [t |-> "list", v |-> <<>>]

\* os.path.exists(CACHE_FILE) and the file's content
NoFile == [exists |-> FALSE, content |-> NotJson]
File(content) == [exists |-> TRUE, content |-> content]

\* load_cache without the isinstance check: whatever json.load returned
load_cache_unchecked(file, io) ==
    IF ~file.exists THEN Dict(<<>>)
    ELSE IF io = "error" THEN Dict(<<>>)
    ELSE IF file.content.t = "invalid" THEN Dict(<<>>)
    ELSE file.content

\* load_cache(): {} when the file is missing, when reading it raises (io),
\* when it is not JSON, and when its JSON is not an object
load_cache(file, io) ==
    IF ~file.exists THEN Dict(<<>>)
    ELSE IF io = "error" THEN Dict(<<>>)
    ELSE IF file.content.t = "invalid" THEN Dict(<<>>)
    ELSE IF file.content.t # "dict" THEN Dict(<<>>)
    ELSE file.content

\* get_cached_reasoning(cache_key); `in` raises TypeError on None and is
\* list membership on a list
get_cached_reasoning(file, cache_key, io) ==
    LET cache_data == load_cache(file, io)
    IN  IF cache_data.t = "null" THEN Raise("TypeError")
        ELSE IF cache_data.t = "list" THEN Return(None)
        ELSE IF cache_key \notin DOMAIN cache_data.v THEN Return(None)
        ELSE LET cache_entry == cache_data.v[cache_key]
             IN  IF cache_entry.t = "dict" /\ "reasoning" \in cache_entry.has
                 THEN Return(Str(cache_entry.reasoning))
                 ELSE Return(None)

\* an entry stored under the key "reason" instead of "reasoning"
CacheEntryMisnamed(reasoning, metadata) ==
    [t |-> "dict",
     has |-> {"reason", "cached_at"}
                \cup (IF metadata # "none" THEN {"metadata"} ELSE {}),
     reasoning |-> reasoning,
     metadata |-> metadata]

\* cache_entry = {"reasoning": ..., "cached_at": ...} plus "metadata" when
\* metadata is not None; the timestamp's value is not modelled
CacheEntry(reasoning, metadata) ==
    [t |-> "dict",
     has |-> {"reasoning", "cached_at"}
                \cup (IF metadata # "none" THEN {"metadata"} ELSE {}),
     reasoning |-> reasoning,
     metadata |-> metadata]

\* save_to_cache(cache_key, reasoning, metadata): the file afterwards and the
\* returned bool (every exception is caught and gives False; item assignment
\* raises on a cache_data that is no dict).  io is what the file system does: "read_error" makes the
\* read of load_cache raise, "open_error" makes open(CACHE_FILE, 'w') raise
\* before the file is touched, "write_error" makes json.dump raise after
\* open has truncated the file; json.dump also raises, after the truncation,
\* on metadata that is not JSON-serializable
save_to_cache(file, cache_key, reasoning, metadata, io) ==
    LET cache_data == load_cache(file, IF io = "read_error" THEN "error" ELSE "ok")
        updated == [k \in DOMAIN cache_data.v \cup {cache_key} |->
                        IF k = cache_key THEN CacheEntry(reasoning, metadata)
                        ELSE cache_data.v[k]]
    IN  IF cache_data.t # "dict" \/ io = "open_error"
        THEN [file |-> file, ret |-> Return(Bool(FALSE))]
        ELSE IF io = "write_error" \/ metadata = "unserializable"
        THEN [file |-> File(NotJson), ret |-> Return(Bool(FALSE))]
        ELSE [file |-> File(Dict(updated)), ret |-> Return(Bool(TRUE))]

-----------------------------------------------------------------------------
(* gemini_client.py.  A text is the sequence of its pieces, " " standing   *)
(* for white space; the empty text is <<>>.                                *)

\* the fixed message call_gemini_api returns without an API key (a Japanese
\* sentence saying that the API key is not set)
NoKeyMessage == <<"API Key not set">>

\* str.strip()
RECURSIVE LStrip(_)
LStrip(s) == IF s # <<>> /\ Head(s) = " " THEN LStrip(Tail(s)) ELSE s

RECURSIVE RStrip(_)
RStrip(s) == IF s # <<>> /\ s[Len(s)] = " "
             THEN RStrip(SubSeq(s, 1, Len(s) - 1)) ELSE s

Strip(s) == RStrip(LStrip(s))

\* x is None
IsNone(x) == x.t = "none"

\* `not x` for x a str or None
Not(x) == x.t = "none" \/ (x.t = "str" /\ x.v = <<>>)

\* load_api_key(); api_key is os.environ.get('GEMINI_API_KEY')
load_api_key(key) ==
    IF Not(key) THEN Raise("GeminiAPIError") ELSE Return(key)

\* f"{x:.2f}" of a float
Fixed2(x) ==
    LET a == IF x < 0 THEN 0 - x ELSE x
    IN  (IF x < 0 THEN <<"-">> ELSE <<>>)
            \o Digits(a \div 100) \o <<".">>
            \o <<Digit((a % 100) \div 10), Digit(a % 10)>>

\* severity_ja = {...}.get(severity, severity)
SeverityJa(severity) ==
    CASE severity = <<"high">> -> <<"ja:high">>
      [] severity = <<"medium">> -> <<"ja:medium">>
      [] severity = <<"low">> -> <<"ja:low">>
      [] OTHER -> severity

\* generate_prompt(...): the variable parts of the prompt text
generate_prompt(lat, lon, co2, deviation, date, severity, zscore) ==
    <<date, Fixed2(lat), Fixed2(lon), Fixed2(co2), Fixed2(deviation),
      SeverityJa(severity), Fixed2(zscore)>>

\* call_gemini_api returning a text where it should raise
call_gemini_api_quiet(key, prompt, api) ==
    IF Not(key)
    THEN [ret |-> Return(Str(NoKeyMessage)), contacted |-> FALSE]
    ELSE IF api.kind # "text" \/ api.text = <<>>
    THEN [ret |-> Return(Str(<<"error">>)), contacted |-> TRUE]
    ELSE [ret |-> Return(Str(Strip(api.text))), contacted |-> TRUE]

\* call_gemini_api(prompt): what it returns or raises, and whether the API
\* was contacted.  api is what the API does when contacted: "error" (any
\* exception of genai), "none" (a falsy response) or a response with a text
call_gemini_api(key, prompt, api) ==
    IF Not(key)
    THEN [ret |-> Return(Str(NoKeyMessage)), contacted |-> FALSE]
    ELSE IF api.kind # "text" \/ api.text = <<>>
    THEN [ret |-> Raise("GeminiAPIError"), contacted |-> TRUE]
    ELSE [ret |-> Return(Str(Strip(api.text))), contacted |-> TRUE]

\* generate_inference(lat, lon, co2, deviation, date, severity, zscore)
generate_inference(key, lat, lon, co2, deviation, date, severity, zscore, api) ==
    call_gemini_api(key,
        generate_prompt(lat, lon, co2, deviation, date, severity, zscore), api)

-----------------------------------------------------------------------------
(* Inputs of the reasoning service *)

\* what the text-generation API may do
ApiError == [kind |-> "error", text |-> <<>>]
ApiNoResponse == [kind |-> "none", text |-> <<>>]
ApiText(x) == [kind |-> "text", text |-> x]

ApiOutcomes ==
    {ApiError, ApiNoResponse, ApiText(<<>>), ApiText(<<" ">>),
     ApiText(<<"t1">>), ApiText(<<" ", "t2", " ">>)}

\* GEMINI_API_KEY: unset, empty, set
ApiKeys == {None, Str(<<>>), Str(<<"key">>)}

\* dates
D15 == <<"2", "0", "2", "5", "-", "0", "1", "-", "1", "5">>
D16 == <<"2", "0", "2", "5", "-", "0", "1", "-", "1", "6">>

\* latitudes, longitudes and dates the key function is called with
LibLats == {110, 112, 3568}
LibLons == {300, 2300, 0 - 11824}
LibDates == {D15, D16}

\* keys the cache functions are called with
LibKeys == {generate_cache_key(3568, 13965, D15),
            generate_cache_key(3568, 13965, D16)}

\* entries a cache file may hold that save_to_cache did not write
StrEntry == [t |-> "str", has |-> {}, reasoning |-> <<>>, metadata |-> "none"]
NoReasoningEntry ==
    [t |-> "dict", has |-> {"cached_at"}, reasoning |-> <<>>, metadata |-> "none"]

\* the cache file before the first call: absent, not JSON, JSON that is not
\* an object, or an object
PriorFiles ==
    {NoFile, File(NotJson), File(JsonNull), File(JsonList)}
        \cup {File(Dict(d)) : d \in UNION {[K -> {CacheEntry(<<"t0">>, "none"),
                                                  StrEntry, NoReasoningEntry}]
                                           : K \in SUBSET LibKeys}}

Metadatas == {"none", "dict", "unserializable"}

\* what a call or a request did: io is what the file system (the table) did
\* when the cache was accessed, seen the cache file found by load_cache
\* ("none" when the cache was not consulted), written whether the cache was
\* changed, called whether the text-generation API was contacted and api
\* what it did then, saved how the cache store of a request ended ("none"
\* when the request did not reach it)
NoEffects ==
    [io |-> "none", seen |-> "none", written |-> FALSE, called |-> FALSE,
     api |-> [kind |-> "unused", text |-> <<>>], saved |-> "none"]

\* the cache file as load_cache finds it
Seen(file) == IF file.exists THEN file.content.t ELSE "absent"

NoCall == [fn |-> "none", args |-> <<>>]

\* the grid aggregation is not part of a run of the reasoning service
GridIdle ==
    /\ entry = "none"
    /\ input = <<>>
    /\ file_paths = <<>>
    /\ pc = "idle"
    /\ cur = 0
    /\ results = <<>>
    /\ last = NoGrid
    /\ response = NoResponse
    /\ raised = FALSE

-----------------------------------------------------------------------------
(* Calls of the functions of cache_manager.py and gemini_client.py, and of *)
(* generate_cache_key of the Lambda handler, in any order, as the unit     *)
(* tests make them.  call is the last call, ret what it returned or        *)
(* raised, effects what it did to the cache file and the API.              *)

LibInit ==
    /\ service = "lib"
    /\ cache \in PriorFiles
    /\ api_key \in ApiKeys
    /\ call = NoCall
    /\ ret = Return(None)
    /\ effects = NoEffects
    /\ GridIdle
    /\ ThreadsIdle
    /\ DownloadIdle

\* generate_cache_key(lat, lon, date) of module m
GenerateCacheKey ==
    \E m \in {"cache_manager", "index"} :
    \E lat \in LibLats : \E lon \in LibLons : \E date \in LibDates :
        /\ call' = [fn |-> "generate_cache_key", args |-> <<m, lat, lon, date>>]
        /\ ret' = Return(Str(IF m = "index"
                             THEN lambda_generate_cache_key(lat, lon, date)
                             ELSE generate_cache_key(lat, lon, date)))
        /\ effects' = NoEffects
        /\ UNCHANGED <<gridVars, auxVars, service, cache, api_key>>

\* load_cache()
LoadCache ==
    \E io \in {"ok", "error"} :
        /\ call' = [fn |-> "load_cache", args |-> <<>>]
        /\ ret' = Return(load_cache(cache, io))
        /\ effects' = [NoEffects EXCEPT !.io = io, !.seen = Seen(cache)]
        /\ UNCHANGED <<gridVars, auxVars, service, cache, api_key>>

\* get_cached_reasoning(cache_key)
GetCachedReasoning ==
    \E cache_key \in LibKeys : \E io \in {"ok", "error"} :
        /\ call' = [fn |-> "get_cached_reasoning", args |-> <<cache_key>>]
        /\ ret' = get_cached_reasoning(cache, cache_key, io)
        /\ effects' = [NoEffects EXCEPT !.io = io, !.seen = Seen(cache)]
        /\ UNCHANGED <<gridVars, auxVars, service, cache, api_key>>

\* save_to_cache(cache_key, reasoning, metadata)
SaveToCache ==
    \E cache_key \in LibKeys : \E reasoning \in {<<"t1">>, <<"t2">>} :
    \E metadata \in Metadatas :
    \E io \in {"ok", "read_error", "open_error", "write_error"} :
    \E r \in {save_to_cache(cache, cache_key, reasoning, metadata, io)} :
        /\ call' = [fn |-> "save_to_cache",
                    args |-> <<cache_key, reasoning, metadata>>]
        /\ ret' = r.ret
        /\ cache' = r.file
        /\ effects' = [NoEffects EXCEPT !.io = io, !.seen = Seen(cache),
                                        !.written = (r.file # cache)]
        /\ UNCHANGED <<gridVars, auxVars, service, api_key>>

\* load_api_key()
LoadApiKey ==
    /\ call' = [fn |-> "load_api_key", args |-> <<>>]
    /\ ret' = load_api_key(api_key)
    /\ effects' = NoEffects
    /\ UNCHANGED <<gridVars, auxVars, service, cache, api_key>>

\* call_gemini_api(prompt)
CallGeminiApi ==
    \E prompt \in {<<>>, <<"Test prompt">>} : \E api \in ApiOutcomes :
    \E r \in {call_gemini_api(api_key, prompt, api)} :
        /\ call' = [fn |-> "call_gemini_api", args |-> <<prompt>>]
        /\ ret' = r.ret
        /\ effects' = [NoEffects EXCEPT !.called = r.contacted,
                         !.api = IF r.contacted THEN api ELSE NoEffects.api]
        /\ UNCHANGED <<gridVars, auxVars, service, cache, api_key>>

\* generate_inference(lat, lon, co2, deviation, date, severity, zscore)
GenerateInference ==
    \E lat \in {3568, 0 - 3387} : \E date \in LibDates :
    \E severity \in {<<"high">>, <<"unknown">>} : \E api \in ApiOutcomes :
    \E r \in {generate_inference(api_key, lat, 13965, 42050, 520, date,
                                 severity, 280, api)} :
        /\ call' = [fn |-> "generate_inference",
                    args |-> <<lat, 13965, 42050, 520, date, severity, 280>>]
        /\ ret' = r.ret
        /\ effects' = [NoEffects EXCEPT !.called = r.contacted,
                         !.api = IF r.contacted THEN api ELSE NoEffects.api]
        /\ UNCHANGED <<gridVars, auxVars, service, cache, api_key>>

LibNext ==
    \/ GenerateCacheKey
    \/ LoadCache
    \/ GetCachedReasoning
    \/ SaveToCache
    \/ LoadApiKey
    \/ CallGeminiApi
    \/ GenerateInference

LibSpec == LibInit /\ [][LibNext]_vars

-----------------------------------------------------------------------------
(* Properties of the library calls (LibSpec) *)

\* the (lat, lon, date) of a call of generate_cache_key
TripleOf(c) == <<c.args[2], c.args[3], c.args[4]>>

\* C11: generate_cache_key, of cache_manager and of the Lambda handler, is a
\* function of (lat, lon, date) and is injective: any two successive calls,
\* of either module, return the same key exactly when their triples are equal
C11_KeyInjective ==
    [][(call.fn = "generate_cache_key" /\ call'.fn = "generate_cache_key")
        => ((ret'.value = ret.value) <=> (TripleOf(call') = TripleOf(call)))]_vars

\* the Lambda handler's function has returned the key of (1.12, 3.0, D16),
\* which is not the key of the same place one day earlier
C11_Witness ==
    /\ call = [fn |-> "generate_cache_key", args |-> <<"index", 112, 300, D16>>]
    /\ ret = Return(Str(generate_cache_key(112, 300, D16)))
    /\ ret # Return(Str(generate_cache_key(112, 300, D15)))

\* the key, reasoning and metadata of a call of save_to_cache
SavedKey == call.args[1]
SavedReasoning == call.args[2]

\* C12: whatever the cache file was before (absent, an object, not JSON,
\* JSON that is no object), when save_to_cache(key, reasoning, metadata) has
\* returned True, get_cached_reasoning(key) on the file it left returns
\* exactly that reasoning
C12_RoundTrip ==
    (call.fn = "save_to_cache" /\ ret = Return(Bool(TRUE)))
        => get_cached_reasoning(cache, SavedKey, "ok")
                = Return(Str(SavedReasoning))

\* a save on a file that was not JSON has returned True and the reasoning
\* is read back from the recovered file
C12_Witness ==
    /\ call.fn = "save_to_cache"
    /\ ret = Return(Bool(TRUE))
    /\ effects.seen = "invalid"
    /\ SavedReasoning = <<"t2">>
    /\ get_cached_reasoning(cache, SavedKey, "ok") = Return(Str(<<"t2">>))

\* the cache file holds no entry for key k that load_cache can read
Unsaved(file, k) ==
    \/ ~file.exists
    \/ file.content.t # "dict"
    \/ k \notin DOMAIN file.content.v

\* C13: load_cache and get_cached_reasoning never raise and never change the
\* cache file; load_cache returns {} when the file is missing, is not JSON,
\* is JSON that is no object or cannot be read, and get_cached_reasoning
\* returns None when the key is not in the file or the file is unreadable
C13_MissNeverFails ==
    [][/\ call'.fn \in {"load_cache", "get_cached_reasoning"}
            => (~ret'.raised /\ cache' = cache)
       /\ (call'.fn = "load_cache"
             /\ (effects'.seen \in {"absent", "invalid", "null", "list"}
                    \/ effects'.io = "error"))
            => ret' = Return(Dict(<<>>))
       /\ (call'.fn = "get_cached_reasoning"
             /\ (Unsaved(cache, call'.args[1]) \/ effects'.io = "error"))
            => ret' = Return(None)]_vars

\* get_cached_reasoning has returned None on a cache file that is not JSON
C13_Witness ==
    /\ call.fn = "get_cached_reasoning"
    /\ effects.seen = "invalid"
    /\ cache = File(NotJson)
    /\ ret = Return(None)

\* C14: a call of save_to_cache changes only the entry of its key: entries
\* of other keys are never removed or altered, that is, what
\* get_cached_reasoning returns for every other key is the same before and
\* after the call
C14_SaveFrame ==
    [][call'.fn = "save_to_cache"
        => \A k \in LibKeys \ {call'.args[1]} :
              get_cached_reasoning(cache', k, "ok")
                  = get_cached_reasoning(cache, k, "ok")]_vars

\* C20: with GEMINI_API_KEY unset or empty, call_gemini_api and
\* generate_inference return the fixed message, whatever their input and
\* whatever the API would do, without raising and without contacting the
\* API, and load_api_key raises GeminiAPIError
C20_NoApiKey ==
    (api_key = None \/ api_key = Str(<<>>))
        => /\ call.fn \in {"call_gemini_api", "generate_inference"}
                => (ret = Return(Str(NoKeyMessage)) /\ ~effects.called)
           /\ call.fn = "load_api_key" => ret = Raise("GeminiAPIError")

\* generate_inference has returned the fixed message for an empty key
C20_Witness ==
    /\ api_key = Str(<<>>)
    /\ call.fn = "generate_inference"
    /\ ret = Return(Str(NoKeyMessage))
    /\ ~effects.called

-----------------------------------------------------------------------------
(* Request bodies of POST /api/reasoning and of the Lambda reasoning       *)
(* handler                                                                 *)

\* subsets of the required fields a drawn body may lack
MaxMissing == 2

\* a JSON value of a field: t its type, n its number, s its text
JNum(x) == [t |-> "num", n |-> x, s |-> <<>>]
JStr(x) == [t |-> "str", n |-> 0, s |-> x]
JNull == [t |-> "null", n |-> 0, s |-> <<>>]
JList == [t |-> "list", n |-> 0, s |-> <<>>]
JObject == [t |-> "object", n |-> 0, s |-> <<>>]

IsDigit(c) == \E d \in 0..9 : Digit(d) = c

AllDigits(s) == s # <<>> /\ \A i \in 1..Len(s) : IsDigit(s[i])

\* int(s) of a text of digits
RECURSIVE NatOf(_)
NatOf(s) ==
    IF s = <<>> THEN 0
    ELSE NatOf(SubSeq(s, 1, Len(s) - 1)) * 10
            + (CHOOSE d \in 0..9 : Digit(d) = s[Len(s)])

Unsigned(s) == IF s # <<>> /\ Head(s) = "-" THEN Tail(s) ELSE s

\* the texts float() accepts: digits with at most one point among them
IsFloatText(s) ==
    LET u == Unsigned(s)
        P == {i \in 1..Len(u) : u[i] = "."}
    IN  IF P = {} THEN AllDigits(u)
        ELSE /\ Cardinality(P) = 1
             /\ \E p \in P : /\ AllDigits(SubSeq(u, 1, p - 1))
                             /\ AllDigits(SubSeq(u, p + 1, Len(u)))

\* float(s) of such a text, in hundredths (at most two decimals are drawn)
FloatOfText(s) ==
    LET u == Unsigned(s)
        P == {i \in 1..Len(u) : u[i] = "."}
        p == IF P = {} THEN Len(u) + 1 ELSE CHOOSE i \in P : TRUE
        whole == NatOf(SubSeq(u, 1, p - 1))
        frac == SubSeq(u, p + 1, Len(u))
        cents == IF frac = <<>> THEN 0
                 ELSE IF Len(frac) = 1 THEN NatOf(frac) * 10
                 ELSE NatOf(SubSeq(frac, 1, 2))
        a == whole * 100 + cents
    IN  IF s # u THEN 0 - a ELSE a

\* float(x) of a JSON value: ValueError on a text that is no number,
\* TypeError on null, a list or an object
PyFloat(j) ==
    IF j.t = "num" THEN [exc |-> "", value |-> j.n]
    ELSE IF j.t = "str" /\ IsFloatText(j.s)
    THEN [exc |-> "", value |-> FloatOfText(j.s)]
    ELSE IF j.t = "str" THEN [exc |-> "ValueError", value |-> 0]
    ELSE [exc |-> "TypeError", value |-> 0]

\* str(x) of a JSON value
PyStr(j) ==
    IF j.t = "str" THEN j.s
    ELSE IF j.t = "num" THEN FloatStr(j.n)
    ELSE IF j.t = "null" THEN <<"None">>
    ELSE IF j.t = "list" THEN <<"[]">>
    ELSE <<"{}">>

\* required_fields
required_fields ==
    <<"lat", "lon", "co2", "deviation", "date", "severity", "zscore">>

\* the fields converted with float(), in the order of the conversions
NumericFields == <<"lat", "lon", "co2", "deviation", "zscore">>

\* a request body: JSON that is an object (v maps its fields to their
\* values), JSON that is no object, or text that is not JSON
Body(v) == [t |-> "dict", v |-> v]
NonObject(t) == [t |-> t, v |-> <<>>]

\* [field for field in required_fields if field not in data] for data an
\* object, a list or a string (no field name is an element of the list or a
\* part of the string drawn)
MissingFields(data) ==
    SelectSeq(required_fields, LAMBDA f : f \notin DOMAIN data.v)

\* the exception of the first float() that raises, "" when none does
RECURSIVE FirstError(_, _)
FirstError(data, fields) ==
    IF fields = <<>> THEN ""
    ELSE IF PyFloat(data.v[Head(fields)]).exc # ""
    THEN PyFloat(data.v[Head(fields)]).exc
    ELSE FirstError(data, Tail(fields))

\* the response of either handler
Response(status, error) ==
    [status |-> status, error |-> error, missing_fields |-> <<>>,
     reasoning |-> <<>>, cached |-> FALSE, cache_key |-> <<>>]

Answer(text, cached, cache_key) ==
    [status |-> 200, error |-> "", missing_fields |-> <<>>,
     reasoning |-> text, cached |-> cached, cache_key |-> cache_key]

\* the outcome of handling a request: the response, the cache afterwards
\* and what was done
Outcome(r, file, e) == [ret |-> r, file |-> file, effects |-> e]

\* severities the Flask endpoint accepts, with 'unknown' added
FlaskSeveritiesWide == {<<"high">>, <<"medium">>, <<"low">>, <<"unknown">>}

\* severity not in ['high', 'medium', 'low']
FlaskSeverities == {<<"high">>, <<"medium">>, <<"low">>}

\* severity not in ['high', 'medium', 'low', 'unknown']
LambdaSeverities == {<<"high">>, <<"medium">>, <<"low">>, <<"unknown">>}

\* a test that takes every cached value for a miss
NeverTruthy(x) == FALSE

\* `if cached_reasoning:` of the Flask endpoint
Truthy(x) == ~Not(x)

\* what the file system may do at the endpoint's cache read and cache write
ReadIOs == {"ok", "error"}
WriteIOs == {"ok", "open_error", "write_error"}

\* the converted parameters of a body that has passed the conversions
Params(data) ==
    [lat |-> PyFloat(data.v["lat"]).value,
     lon |-> PyFloat(data.v["lon"]).value,
     co2 |-> PyFloat(data.v["co2"]).value,
     deviation |-> PyFloat(data.v["deviation"]).value,
     date |-> PyStr(data.v["date"]),
     severity |-> PyStr(data.v["severity"]),
     zscore |-> PyFloat(data.v["zscore"]).value]

-----------------------------------------------------------------------------
(* app.py: POST /api/reasoning.  Each operator gives the set of outcomes   *)
(* the environment (file system, API) allows.                              *)

\* a handler that answers 500 when the cache store fails
SaveFailureFails(save_success, answer) ==
    IF save_success THEN answer ELSE Response(500, "Internal server error")

\* `if not save_success:` only prints a warning; the answer is returned
\* either way
SaveWarning(save_success, answer) == answer

\* steps 5 to 7: generate, save, answer with cached False
FlaskGenerate(file, key, p, cache_key, e) ==
    UNION {
        LET gen == generate_inference(key, p.lat, p.lon, p.co2, p.deviation,
                                      p.date, p.severity, p.zscore, api)
            e2 == [e EXCEPT !.called = gen.contacted,
                            !.api = IF gen.contacted THEN api ELSE NoEffects.api]
        IN  IF gen.ret.raised
            THEN {Outcome(Response(500, "Gemini API error"), file, e2)}
            ELSE {LET saved == save_to_cache(file, cache_key, gen.ret.value.v,
                                             "dict", wio)
                  IN  Outcome(SaveWarning(saved.ret = Return(Bool(TRUE)),
                                          Answer(gen.ret.value.v, FALSE,
                                                 cache_key)),
                              saved.file,
                              [e2 EXCEPT !.written = (saved.file # file),
                                         !.saved = IF saved.ret = Return(Bool(TRUE))
                                                   THEN "stored" ELSE "failed"])
                  : wio \in WriteIOs}
        : api \in ApiOutcomes}

\* steps 2 to 4: key, cache lookup, answer with cached True on a hit
FlaskLookup(file, key, p) ==
    LET cache_key == generate_cache_key(p.lat, p.lon, p.date)
    IN  UNION {
            LET cached_reasoning == get_cached_reasoning(file, cache_key, rio).value
                e == [NoEffects EXCEPT !.io = rio, !.seen = Seen(file)]
            IN  IF Truthy(cached_reasoning)
                THEN {Outcome(Answer(cached_reasoning.v, TRUE, cache_key), file, e)}
                ELSE FlaskGenerate(file, key, p, cache_key, e)
            : rio \in ReadIOs}

\* reasoning(): request.get_json() raises on a body that is not JSON, and
\* `field not in data` raises TypeError on null and on a number; both reach
\* `except Exception`, as does a TypeError of float(); ValueError reaches
\* `except ValueError`
flask_reasoning(file, key, data) ==
    IF data.t \in {"invalid", "null", "num"}
    THEN {Outcome(Response(500, "Internal server error"), file, NoEffects)}
    ELSE IF MissingFields(data) # <<>>
    THEN {Outcome([Response(400, "Missing required fields")
                      EXCEPT !.missing_fields = MissingFields(data)],
                  file, NoEffects)}
    ELSE IF FirstError(data, NumericFields) = "ValueError"
    THEN {Outcome(Response(400, "Invalid parameter type"), file, NoEffects)}
    ELSE IF FirstError(data, NumericFields) # ""
    THEN {Outcome(Response(500, "Internal server error"), file, NoEffects)}
    ELSE IF Params(data).severity \notin FlaskSeverities
    THEN {Outcome(Response(400, "Invalid severity value"), file, NoEffects)}
    ELSE FlaskLookup(file, key, Params(data))

-----------------------------------------------------------------------------
(* cdk/lambda/reasoning-handler/index.py.  The DynamoDB table is a cache   *)
(* file that always holds an object: its items by cache_key.               *)

\* what the table may do at get_item and at put_item
TableIOs == {"ok", "error"}

\* get_cached_reasoning(cache_key): the item, None when there is none and
\* when get_item raises
lambda_get_cached_reasoning(table, cache_key, io) ==
    IF io = "error" THEN [found |-> FALSE, item |-> NoReasoningEntry]
    ELSE IF cache_key \notin DOMAIN table.content.v
    THEN [found |-> FALSE, item |-> NoReasoningEntry]
    ELSE [found |-> TRUE, item |-> table.content.v[cache_key]]

\* save_to_cache(cache_key, reasoning, metadata): the table afterwards; an
\* exception of put_item is logged and dropped
lambda_save_to_cache(table, cache_key, reasoning, metadata, io) ==
    IF io = "error" THEN table
    ELSE File(Dict([k \in DOMAIN table.content.v \cup {cache_key} |->
                        IF k = cache_key THEN CacheEntry(reasoning, metadata)
                        ELSE table.content.v[k]]))

\* generate_reasoning_with_bedrock(...): any failure is raised again as
\* Exception; the text of the response is stripped and not tested
generate_reasoning_with_bedrock(p, api) ==
    IF api.kind # "text" THEN Raise("Exception")
    ELSE Return(Str(Strip(api.text)))

\* cache miss: generate, save, answer with cached False
LambdaGenerate(table, p, cache_key, e) ==
    UNION {
        LET gen == generate_reasoning_with_bedrock(p, api)
            e2 == [e EXCEPT !.called = TRUE, !.api = api]
        IN  IF gen.raised
            THEN {Outcome(Response(500, "Internal server error"), table, e2)}
            ELSE {LET saved == lambda_save_to_cache(table, cache_key,
                                                    gen.value.v, "dict", wio)
                  IN  Outcome(Answer(gen.value.v, FALSE, cache_key), saved,
                              [e2 EXCEPT !.written = (saved # table),
                                         !.saved = IF wio = "ok" THEN "stored"
                                                   ELSE "failed"])
                  : wio \in TableIOs}
        : api \in ApiOutcomes}

\* key, cache lookup, answer with cached True when an item was found
LambdaLookup(table, p) ==
    LET cache_key == lambda_generate_cache_key(p.lat, p.lon, p.date)
    IN  UNION {
            LET cached_item == lambda_get_cached_reasoning(table, cache_key, rio)
                e == [NoEffects EXCEPT !.io = rio, !.seen = Seen(table)]
            IN  IF cached_item.found
                THEN IF "reasoning" \in cached_item.item.has
                     THEN {Outcome(Answer(cached_item.item.reasoning, TRUE,
                                          cache_key), table, e)}
                     ELSE {Outcome(Response(400, "Missing required parameter"),
                                   table, e)}
                ELSE LambdaGenerate(table, p, cache_key, e)
            : rio \in TableIOs}

\* lambda_handler(event, context) for event['body'] = data: json.loads
\* raises on a body that is not JSON and `field not in body` raises
\* TypeError on null and on a number, both reach `except Exception`; the
\* conversions are guarded by `except (ValueError, TypeError)`
lambda_handler(table, data) ==
    IF data.t \in {"invalid", "null", "num"}
    THEN {Outcome(Response(500, "Internal server error"), table, NoEffects)}
    ELSE IF MissingFields(data) # <<>>
    THEN {Outcome([Response(400, "Missing required fields")
                      EXCEPT !.missing_fields = MissingFields(data)],
                  table, NoEffects)}
    ELSE IF FirstError(data, NumericFields) # ""
    THEN {Outcome(Response(400, "Invalid parameter type"), table, NoEffects)}
    ELSE IF Params(data).severity \notin LambdaSeverities
    THEN {Outcome(Response(400, "Invalid severity value"), table, NoEffects)}
    ELSE LambdaLookup(table, Params(data))

-----------------------------------------------------------------------------
(* Requests drawn *)

\* the body of the tests: all seven fields, numbers as JSON numbers
Base ==
    [f \in Range(required_fields) |->
        CASE f = "lat" -> JNum(3568)
          [] f = "lon" -> JNum(13965)
          [] f = "co2" -> JNum(42050)
          [] f = "deviation" -> JNum(520)
          [] f = "date" -> JStr(D15)
          [] f = "severity" -> JStr(<<"high">>)
          [] f = "zscore" -> JNum(280)]

With(b, f, x) == [b EXCEPT ![f] = x]
Without(b, S) == [f \in DOMAIN b \ S |-> b[f]]

\* well-formed bodies of two places in time; "35.68" is the same latitude
\* sent as a string
ValidBodies ==
    {Body(With(With(Base, "lat", l), "date", JStr(d))) :
        l \in {JNum(3568), JStr(FloatStr(3568))}, d \in {D15, D16}}

SeverityBodies ==
    {Body(With(Base, "severity", x)) :
        x \in {JStr(<<"medium">>), JStr(<<"low">>), JStr(<<"unknown">>),
               JStr(<<"invalid">>), JNull}}

MissingBodies ==
    {Body(Without(Base, S)) :
        S \in {T \in SUBSET Range(required_fields) :
                  \/ Cardinality(T) \in 1..MaxMissing
                  \/ T = Range(required_fields)}}

NotANumber == JStr(<<"n", "o", "t", "-", "a", "-", "n", "u", "m", "b", "e", "r">>)

BadNumberBodies ==
    {Body(With(Base, f, x)) :
        f \in Range(NumericFields), x \in {NotANumber, JNull, JList, JObject}}

\* bodies with two faults
MixedBodies ==
    {Body(With(With(Base, "severity", JStr(<<"invalid">>)), "lat", NotANumber)),
     Body(Without(With(Base, "severity", JStr(<<"invalid">>)), {"zscore"})),
     Body(Without(With(Base, "lat", NotANumber), {"zscore"})),
     Body(With(With(Base, "lat", NotANumber), "lon", JNull)),
     Body(With(With(Base, "lat", JNull), "lon", NotANumber))}

NonObjectBodies ==
    {NonObject(t) : t \in {"invalid", "null", "num", "list", "str"}}

Bodies ==
    ValidBodies \cup SeverityBodies \cup MissingBodies \cup BadNumberBodies
        \cup MixedBodies \cup NonObjectBodies

\* the cache before the first request
FlaskCaches ==
    {NoFile, File(NotJson),
     File(Dict([k \in {generate_cache_key(3568, 13965, D15)} |->
                    CacheEntry(<<"t0">>, "dict")]))}

LambdaTables ==
    {File(Dict(<<>>)),
     File(Dict([k \in {lambda_generate_cache_key(3568, 13965, D15)} |->
                    CacheEntry(<<"t0">>, "dict")]))}

-----------------------------------------------------------------------------
(* The reasoning service handling one request after another: the Flask     *)
(* endpoint with its cache file, or the Lambda handler with its table.     *)

ReasoningInit ==
    /\ service \in {"flask", "lambda"}
    /\ cache \in IF service = "flask" THEN FlaskCaches ELSE LambdaTables
    /\ api_key \in IF service = "flask" THEN ApiKeys ELSE {None}
    /\ call = NoCall
    /\ ret = Response(0, "")
    /\ effects = NoEffects
    /\ GridIdle
    /\ ThreadsIdle
    /\ DownloadIdle

\* POST /api/reasoning
FlaskRequest ==
    /\ service = "flask"
    /\ \E data \in Bodies : \E out \in flask_reasoning(cache, api_key, data) :
        /\ call' = [fn |-> "reasoning", args |-> <<data>>]
        /\ ret' = out.ret
        /\ cache' = out.file
        /\ effects' = out.effects
    /\ UNCHANGED <<gridVars, auxVars, service, api_key>>

\* an invocation of the Lambda reasoning handler
LambdaRequest ==
    /\ service = "lambda"
    /\ \E data \in Bodies : \E out \in lambda_handler(cache, data) :
        /\ call' = [fn |-> "lambda_handler", args |-> <<data>>]
        /\ ret' = out.ret
        /\ cache' = out.file
        /\ effects' = out.effects
    /\ UNCHANGED <<gridVars, auxVars, service, api_key>>

ReasoningNext ==
    \/ FlaskRequest
    \/ LambdaRequest

ReasoningSpec == ReasoningInit /\ [][ReasoningNext]_vars

-----------------------------------------------------------------------------
(* Properties of the reasoning service (ReasoningSpec) *)

\* the body of a request
DataOf(c) == c.args[1]

IsRequest(c) == c.fn \in {"reasoning", "lambda_handler"}

\* the body is a JSON object
IsObject(data) == data.t = "dict"

\* the required fields a body lacks
Absent(data) == Range(required_fields) \ DOMAIN data.v

\* the numeric fields of a complete body that float() does not convert
Inconvertible(data) ==
    {f \in Range(NumericFields) : PyFloat(data.v[f]).exc # ""}

\* a complete body with convertible numbers
Convertible(data) ==
    IsObject(data) /\ Absent(data) = {} /\ Inconvertible(data) = {}

\* the severities each handler accepts, as the claim lists them
Accepted(svc) ==
    IF svc = "flask" THEN {<<"high">>, <<"medium">>, <<"low">>}
    ELSE {<<"high">>, <<"medium">>, <<"low">>, <<"unknown">>}

\* a body that passes every validation of the handler svc
Valid(svc, data) ==
    Convertible(data) /\ PyStr(data.v["severity"]) \in Accepted(svc)

\* (lat, lon, date) of a valid body, and its cache key
PlaceAndDate(data) ==
    <<Params(data).lat, Params(data).lon, Params(data).date>>

KeyOf(data) ==
    generate_cache_key(PyFloat(data.v["lat"]).value, PyFloat(data.v["lon"]).value,
                       PyStr(data.v["date"]))

\* the cache holds text as the reasoning of key k
Stored(file, k, text) ==
    get_cached_reasoning(file, k, "ok") = Return(Str(text))

\* a request answered 200 with cached false is followed by a valid request
\* for the same (lat, lon, date)
Repeat ==
    /\ IsRequest(call) /\ ret.status = 200 /\ ~ret.cached
    /\ IsRequest(call') /\ Valid(service, DataOf(call'))
    /\ PlaceAndDate(DataOf(call')) = PlaceAndDate(DataOf(call))

C16_MissingFields ==
    (IsRequest(call)
        /\ (~IsObject(DataOf(call)) \/ Absent(DataOf(call)) # {}))
        => /\ ret.status = 400
           /\ ret.error = "Missing required fields"
           /\ Range(ret.missing_fields) = Absent(DataOf(call))
           /\ effects = NoEffects

\* C17: every request with all seven fields in which lat, lon, co2,
\* deviation or zscore is not convertible to a number is answered 400
\* 'Invalid parameter type' by either handler, without the cache or the
\* text-generation service being used
C17_InvalidParameterType ==
    (IsRequest(call)
        /\ IsObject(DataOf(call)) /\ Absent(DataOf(call)) = {}
        /\ Inconvertible(DataOf(call)) # {})
        => /\ ret.status = 400
           /\ ret.error = "Invalid parameter type"
           /\ effects = NoEffects

\* the request carries a severity that the handler does not accept
BadSeverity ==
    /\ IsRequest(call)
    /\ IsObject(DataOf(call))
    /\ "severity" \in DOMAIN DataOf(call).v
    /\ PyStr(DataOf(call).v["severity"]) \notin Accepted(service)

RejectedForSeverity ==
    /\ ret.status = 400
    /\ ret.error = "Invalid severity value"
    /\ effects = NoEffects

\* C18 as stated: every request whose severity is not an accepted value is
\* answered 400 'Invalid severity value' before any cache lookup or
\* generation
C18_InvalidSeverity_Original == BadSeverity => RejectedForSeverity

\* C18: every request that has all seven fields with convertible numbers
\* and whose severity is not an accepted value (Flask: high, medium, low;
\* Lambda: these and unknown) is answered 400 'Invalid severity value'
\* before any cache lookup or generation, and a request with an accepted
\* severity is never answered 'Invalid severity value'
C18_InvalidSeverity ==
    /\ (BadSeverity /\ Convertible(DataOf(call))) => RejectedForSeverity
    /\ (IsRequest(call) /\ ~BadSeverity) => ret.error # "Invalid severity value"

\* the Flask endpoint has rejected the severity 'unknown', which the Lambda
\* handler accepts, without looking into the cache
C18_Witness ==
    /\ service = "flask"
    /\ BadSeverity
    /\ PyStr(DataOf(call).v["severity"]) = <<"unknown">>
    /\ RejectedForSeverity

\* the text-generation service was called and failed: the API raised or
\* gave no response, or (Flask) gave a response with an empty text
GenerationFailed(svc, e) ==
    /\ e.called
    /\ \/ e.api.kind \in {"error", "none"}
       \/ svc = "flask" /\ e.api.text = <<>>

\* C19: a request whose generation fails on a cache miss is answered 500
\* and leaves the cache as it was; and after a request that really missed
\* (its cache read did not fail) and whose generation failed, the next
\* valid request for the same key misses again and calls the service again
C19_GenerationFailure ==
    [][/\ (IsRequest(call') /\ GenerationFailed(service, effects'))
            => (ret'.status = 500 /\ cache' = cache /\ ~effects'.written)
       /\ (/\ IsRequest(call) /\ GenerationFailed(service, effects)
           /\ effects.io = "ok"
           /\ IsRequest(call') /\ Valid(service, DataOf(call'))
           /\ KeyOf(DataOf(call')) = KeyOf(DataOf(call)))
            => (effects'.called /\ ~ret'.cached)]_vars

\* the Lambda handler has answered 500 after Bedrock raised on a miss for
\* 16 January, and the entry of 15 January is still in the table
C19_Witness ==
    /\ service = "lambda"
    /\ IsRequest(call)
    /\ GenerationFailed(service, effects)
    /\ effects.io = "ok"
    /\ ret.status = 500
    /\ Params(DataOf(call)).date = D16
    /\ Stored(cache, lambda_generate_cache_key(3568, 13965, D15), <<"t0">>)
    /\ ~Stored(cache, KeyOf(DataOf(call)), <<"t0">>)

-----------------------------------------------------------------------------
(* C21 *)

\* the position of a candidate's cell in the row-major traversal of the
\* grid recorded in `last`
TraversalIndex(c) ==
    LET row == (c.lat_min - last.lat_grid[1]) \div LL
        col == (c.lon_min - last.lon_grid[1]) \div LL
    IN  row * (Len(last.lon_grid) - 1) + col

SameAvg(a, b) == ~AvgLess(a, b) /\ ~AvgLess(b, a)

\* the non-empty cells of the grid recorded in `last`, as candidates
LastCells ==
    LET vi == ValidIndices(last)
        vv == ValidValues(last)
    IN  {Candidate(last, vi[n], vv[n]) : n \in 1..Len(vi)}

\* C21: the per-file ranking is stable: candidates of one file with equal
\* averages are listed in row-major traversal order of the grid, and of
\* the cells tied across the cut-off the ones earlier in traversal order
\* are kept.
C21_StableRanking ==
    (last.file > 0 /\ last.cands # <<>>) =>
        /\ \A a, b \in 1..Len(last.cands) :
               (a < b /\ SameAvg(last.cands[a].avg_co2, last.cands[b].avg_co2))
                   => TraversalIndex(last.cands[a])
                          < TraversalIndex(last.cands[b])
        /\ \A c \in LastCells \ Range(last.cands) :
               \A a \in 1..Len(last.cands) :
                   SameAvg(last.cands[a].avg_co2, c.avg_co2)
                       => TraversalIndex(last.cands[a]) < TraversalIndex(c)

-----------------------------------------------------------------------------
(* C22 *)

\* the number of collected candidates that a stable descending ranking
\* places before results[i]: those with a greater average, and those with
\* the same average that come earlier in results
StableRank(i) ==
    Cardinality({j \in 1..Len(results) :
        \/ AvgLess(results[i].avg_co2, results[j].avg_co2)
        \/ j < i /\ SameAvg(results[j].avg_co2, results[i].avg_co2)})

\* C22: the global merge is stable: the k-th feature is the candidate that
\* has k - 1 candidates before it when equal averages keep their input
\* order (file-list order, then the file's own candidate order); so of
\* the candidates tied across the top-10 cut-off the earlier ones are kept.
C22_StableMerge ==
    Returned200 =>
        /\ Len(response.body.features) = MinOf(10, Len(results))
        /\ \A k \in 1..Len(response.body.features) :
               \E i \in 1..Len(results) :
                   /\ StableRank(i) = k - 1
                   /\ response.body.features[k].properties = results[i]

\* the two equal cells of the first file and the tenth candidate of the
\* second file tie across the cut-off, and the first file's first
\* candidate is the one in the output
C22_Witness ==
    /\ Returned200
    /\ Len(file_paths) = 2
    /\ Len(results) = 12
    /\ SameAvg(results[1].avg_co2, results[2].avg_co2)
    /\ SameAvg(results[1].avg_co2, results[12].avg_co2)
    /\ results[1] # results[2]
    /\ response.body.features[10].properties = results[1]

-----------------------------------------------------------------------------
(* C23 *)

\* C23: the grid axes of a file cover its extent up to lat_max and lon_max
\* inclusive: every valid observation, also one lying exactly at lat_max
\* or lon_max, has its cell in the grid, and every cell of the grid counts
\* exactly the valid observations lying in it, so that no valid
\* observation is discarded by the index-range filter.
C23_AllObservationsCounted ==
    (last.file > 0 /\ Surviving(LastFile.obs) # <<>>) =>
        LET v == Surviving(LastFile.obs)
        IN  /\ \A k \in 1..Len(v) :
                   FloorCell(v[k], v) \in DOMAIN last.grid_count
            /\ \A c \in DOMAIN last.grid_count :
                   /\ last.grid_count[c] = Len(InCell(v, c))
                   /\ last.grid_sum[c] = SumSeq(Xco2Of(InCell(v, c)))

-----------------------------------------------------------------------------
(* C24 *)

\* the text the handler has generated: the stripped answer of the API,
\* or the fixed message of a service without API key
Generated(e) == IF e.called THEN Strip(e.api.text) ELSE NoKeyMessage

\* C24: a failure of the cache store never fails a reasoning request: when
\* the cache write fails after a successful generation (save_to_cache
\* returns False in Flask, put_item raises in Lambda) the response is
\* still 200 with the generated reasoning and cached=false; and in Lambda
\* a failing cache read is treated as a miss: generation proceeds.
C24_StoreFailureTolerated ==
    IsRequest(call) =>
        /\ effects.saved = "failed"
               => /\ ret.status = 200
                  /\ ~ret.cached
                  /\ ret.reasoning = Generated(effects)
        /\ (service = "lambda" /\ effects.io = "error") => effects.called

\* the Flask endpoint has answered 200 with the generated text although
\* the write of the cache file failed
C24_Witness ==
    /\ service = "flask"
    /\ IsRequest(call)
    /\ effects.saved = "failed"
    /\ effects.called
    /\ ret.status = 200
    /\ ret.reasoning = <<"t1">>
    /\ ~Stored(cache, KeyOf(DataOf(call)), <<"t1">>)

\* the Lambda handler has generated an answer after get_item raised, and
\* put_item raised as well
C24_WitnessLambda ==
    /\ service = "lambda"
    /\ IsRequest(call)
    /\ effects.io = "error"
    /\ effects.saved = "failed"
    /\ ret.status = 200
    /\ ret.reasoning = <<"t1">>

-----------------------------------------------------------------------------
(* C25 *)

\* the cache holds an entry with a reasoning text under the key k
HoldsText(file, k) == get_cached_reasoning(file, k, "ok").value.t = "str"

\* that text
StoredText(file, k) == get_cached_reasoning(file, k, "ok").value.v

\* a valid request arrives while the cache holds an entry with a reasoning
\* text for its key
RequestForStoredKey ==
    /\ IsRequest(call') /\ Valid(service, DataOf(call'))
    /\ HoldsText(cache, KeyOf(DataOf(call')))

\* the request is answered 200 from the cache, which stays as it was, and
\* the text-generation service is not called
AnsweredFromCache ==
    /\ ret'.status = 200 /\ ret'.cached
    /\ ret'.reasoning = StoredText(cache, KeyOf(DataOf(call')))
    /\ ~effects'.called
    /\ cache' = cache

\* C25 as stated: whenever the cache holds an entry with a reasoning text
\* for a valid request's key, the request is answered 200 from the cache
\* (cached true, the stored text, no call of the service, cache not
\* modified), and the service is called only for a key without such entry
C25_HitServedFromCache_Original ==
    [][/\ RequestForStoredKey => AnsweredFromCache
       /\ (IsRequest(call') /\ effects'.called)
            => ~HoldsText(cache, KeyOf(DataOf(call')))]_vars

\* the lookup of the request finds the stored text: the cache read does
\* not fail and, for the Flask endpoint, the text is not empty
LookupFinds ==
    /\ effects'.io = "ok"
    /\ service = "flask" => StoredText(cache, KeyOf(DataOf(call'))) # <<>>

\* C25: whenever the cache holds an entry with a reasoning text for a valid
\* request's key, the cache read of the request does not fail and, for the
\* Flask endpoint, the text is not empty, the request is answered 200 from
\* the cache (cached true, the stored text, no call of the service, cache
\* not modified); the service is called only when there is no such entry,
\* the read failed or the Flask endpoint found an empty text
C25_HitServedFromCache ==
    [][/\ (LookupFinds /\ RequestForStoredKey) => AnsweredFromCache
       /\ (IsRequest(call') /\ effects'.called)
            => \/ ~HoldsText(cache, KeyOf(DataOf(call')))
               \/ ~LookupFinds]_vars

\* the Lambda handler has answered the request for 15 January with the
\* text its table held, without calling the service
C25_Witness ==
    /\ service = "lambda"
    /\ IsRequest(call)
    /\ ret.status = 200 /\ ret.cached
    /\ ret.reasoning = <<"t0">>
    /\ effects.io = "ok" /\ ~effects.called /\ ~effects.written
    /\ Params(DataOf(call)).date = D15
    /\ Stored(cache, KeyOf(DataOf(call)), <<"t0">>)

-----------------------------------------------------------------------------
(* C26 *)

\* the candidate lists one file can contribute (one list per order that
\* argsort may give to equal averages); no candidate for a file without
\* surviving observation
CandidateLists(f) ==
    IF FileOutcome(f) # "aggregate" THEN {<<>>}
    ELSE LET g == Grid(MaskValid(f.obs))
         IN  {FileCandidates(g, top_idx) : top_idx \in TopIdx(ValidValues(g))}

\* the concatenations that take one list from each set of ls, in order
RECURSIVE Concatenations(_)
Concatenations(ls) ==
    IF ls = <<>> THEN {<<>>}
    ELSE {c \o r : c \in Head(ls), r \in Concatenations(Tail(ls))}

\* the lists `results` can hold after the loop over the files fp
ResultsOf(fp) ==
    Concatenations([k \in 1..Len(fp) |-> CandidateLists(fp[k])])

\* a list in another order
Permuted(fp, p) == [k \in 1..Len(fp) |-> fp[p[k]]]

\* C26: the order in which the files are processed does not change the
\* multiset of avg_co2 values of the output: whatever the permutation of
\* the file list, and whatever the order given to equal averages, the
\* output holds the same averages as the output returned.
C26_FileOrderIndependent ==
    Returned200 =>
        LET lists == AsArray([k \in 1..Len(file_paths) |->
                                 CandidateLists(file_paths[k])])
            returned == SortAvgs(FeatureAvgs)
        IN  /\ results \in Concatenations(lists)
            /\ \A p \in Permutations(1..Len(file_paths)) :
                   \A res \in Concatenations(Permuted(lists, p)) :
                       SortAvgs(AvgsOf(GlobalTop10(res))) = returned

\* the file with two equal cells was processed before the 12-cell file
\* whose tenth average they equal: the output has ten features, and in the
\* other order the tied feature would come from the 12-cell file
C26_Witness ==
    /\ Returned200
    /\ file_paths = <<CutOffTieFile(500), RowFile(500)>>
    /\ Len(response.body.features) = 10
    /\ response.body.features[10].properties = results[1]
    /\ \E res \in ResultsOf(<<RowFile(500), CutOffTieFile(500)>>) :
           GlobalTop10(res)[10] # results[1]

-----------------------------------------------------------------------------
(* C27 *)

\* the reasoning texts the cache file holds
CachedTexts(file) ==
    IF file.exists /\ file.content.t = "dict"
    THEN {file.content.v[k].reasoning : k \in DOMAIN file.content.v}
    ELSE {}

\* C27: every reasoning text stored in the Flask cache was produced by a
\* successful call of the text-generation service: a request stores a text
\* only after the service has answered with one, the cache never holds the
\* placeholder message of a service without API key, and a cache hit
\* never returns it.
C27_OnlyGeneratedTextCached ==
    service = "flask" =>
        /\ (IsRequest(call) /\ effects.saved = "stored")
               => (effects.called /\ effects.api.kind = "text")
        /\ NoKeyMessage \notin CachedTexts(cache)
        /\ (IsRequest(call) /\ ret.status = 200 /\ ret.cached)
               => ret.reasoning # NoKeyMessage

-----------------------------------------------------------------------------
(* Two /api/reasoning requests handled at the same time by two threads of  *)
(* the Flask server (app.run starts a threaded server).  Each thread runs  *)
(* the endpoint for a valid request: the lookup, then, on a miss, the      *)
(* generation and the steps of save_to_cache, which take no lock: reading  *)
(* cache.json, opening it for writing (which truncates it), and writing    *)
(* the updated dictionary when the file is closed.                         *)

Threads == {1, 2}

\* the keys of the two requests; the cache may hold a third one
ThreadKeys ==
    {generate_cache_key(3568, 13965, D16), generate_cache_key(3569, 13965, D15)}

\* the texts generated for the requests, of different lengths
ThreadTexts == {<<"t1">>, <<"t2", "t2">>}

\* the length of the JSON text of a cache dictionary: one unit per entry
\* and one per piece of text
RECURSIVE SizeOfEntries(_, _)
SizeOfEntries(d, K) ==
    IF K = {} THEN 0
    ELSE LET k == CHOOSE x \in K : TRUE
         IN  1 + Len(d[k].reasoning) + SizeOfEntries(d, K \ {k})

\* the length of a cache file: a file just truncated is empty
Size(file) ==
    IF file.exists /\ file.content.t = "dict"
    THEN SizeOfEntries(file.content.v, DOMAIN file.content.v)
    ELSE 0

\* the file after a thread has written data from offset 0 through a handle
\* opened before the present content was written by another handle: what
\* is longer than data stays behind it, and the file is no JSON text
WriteAtStart(file, data) ==
    IF Size(File(data)) >= Size(file) THEN File(data) ELSE File(NotJson)

\* a thread about to handle the request for cache_key, for which the
\* service will generate reasoning
Thread(cache_key, reasoning) ==
    [pc |-> "lookup", cache_key |-> cache_key, reasoning |-> reasoning,
     cache_data |-> Dict(<<>>), cached |-> FALSE, saved |-> "none"]

ConcurrentInit ==
    /\ service = "threads"
    /\ cache \in FlaskCaches
    /\ api_key = Str(<<"key">>)
    /\ call = NoCall
    /\ ret = Response(0, "")
    /\ effects = NoEffects
    /\ threads \in [Threads -> {Thread(k, x) : k \in ThreadKeys, x \in ThreadTexts}]
    /\ GridIdle
    /\ DownloadIdle

\* the variables a thread of the server leaves alone
ThreadFrame ==
    UNCHANGED <<gridVars, service, api_key, call, ret, effects,
                listing, tmp, downloaded_files, dpc, at>>

\* app.py lines 135-147: get_cached_reasoning; a hit is answered, a miss
\* goes on to the generation and to save_to_cache
ThreadLookup(t) ==
    /\ ThreadFrame
    /\ threads[t].pc = "lookup"
    /\ LET cached_reasoning ==
               get_cached_reasoning(cache, threads[t].cache_key, "ok").value
       IN  threads' = [threads EXCEPT
               ![t].pc = IF Truthy(cached_reasoning) THEN "done" ELSE "load",
               ![t].cached = Truthy(cached_reasoning),
               ![t].reasoning = IF Truthy(cached_reasoning)
                                THEN cached_reasoning.v ELSE @]
    /\ UNCHANGED cache

\* save_to_cache lines 118-131: cache_data = load_cache(), then
\* cache_data[cache_key] = cache_entry
ThreadLoad(t) ==
    /\ ThreadFrame
    /\ threads[t].pc = "load"
    /\ LET cache_data == load_cache(cache, "ok")
           updated == [k \in DOMAIN cache_data.v \cup {threads[t].cache_key} |->
                          IF k = threads[t].cache_key
                          THEN CacheEntry(threads[t].reasoning, "dict")
                          ELSE cache_data.v[k]]
       IN  threads' = [threads EXCEPT ![t].pc = "open",
                                      ![t].cache_data = Dict(updated)]
    /\ UNCHANGED cache

\* line 133: open(CACHE_FILE, 'w') truncates the file, or raises and
\* save_to_cache returns False
ThreadOpen(t) ==
    /\ ThreadFrame
    /\ threads[t].pc = "open"
    /\ \/ /\ cache' = File(NotJson)
          /\ threads' = [threads EXCEPT ![t].pc = "dump"]
       \/ /\ threads' = [threads EXCEPT ![t].pc = "done", ![t].saved = "False"]
          /\ UNCHANGED cache

\* lines 134-136: json.dump and the close of the file write the text from
\* the start of the file; return True
ThreadDump(t) ==
    /\ ThreadFrame
    /\ threads[t].pc = "dump"
    /\ cache' = WriteAtStart(cache, threads[t].cache_data)
    /\ threads' = [threads EXCEPT ![t].pc = "done", ![t].saved = "True"]

ConcurrentNext ==
    \E t \in Threads :
        \/ ThreadLookup(t)
        \/ ThreadLoad(t)
        \/ ThreadOpen(t)
        \/ ThreadDump(t)

ConcurrentSpec == ConcurrentInit /\ [][ConcurrentNext]_vars

-----------------------------------------------------------------------------
(* C28 *)

\* both requests, with different keys, were misses whose save_to_cache
\* returned True, and both are complete
BothSaved ==
    /\ \A t \in Threads : threads[t].pc = "done" /\ threads[t].saved = "True"
    /\ threads[1].cache_key # threads[2].cache_key

\* C28: when two requests with different cache keys are handled
\* concurrently and both are misses whose save_to_cache returns True, then
\* after both are complete the cache file is readable and holds both
\* entries, whatever the interleaving of the steps of save_to_cache.
C28_ConcurrentSavesKept ==
    BothSaved =>
        /\ cache.exists /\ cache.content.t = "dict"
        /\ \A t \in Threads :
               Stored(cache, threads[t].cache_key, threads[t].reasoning)

-----------------------------------------------------------------------------
(* C29 *)

\* C29: the features of every FeatureCollection returned with status 200
\* are listed in non-increasing order of avg_co2: no feature has a smaller
\* average than the feature after it, for every input batch.
C29_FeaturesDescending ==
    Returned200 =>
        \A k \in 1..(Len(response.body.features) - 1) :
            ~AvgLess(FeatureAvgs[k], FeatureAvgs[k + 1])

\* two files gave ten features; the candidates were not collected in
\* descending order (the second file holds the greatest average), and the
\* first feature has a greater average than the last
C29_Witness ==
    /\ Returned200
    /\ Len(file_paths) = 2
    /\ Len(response.body.features) = 10
    /\ \E i \in 11..Len(results) :
           /\ AvgLess(results[1].avg_co2, results[i].avg_co2)
           /\ response.body.features[1].properties = results[i]
    /\ AvgLess(FeatureAvgs[10], FeatureAvgs[1])

-----------------------------------------------------------------------------
(* download_s3.lambda_handler followed by the analysis, as                 *)
(* lambda_function.lambda_handler runs them.  An S3 key is the sequence of *)
(* its path components, the last one being empty for a key that ends with  *)
(* "/"; a file of /tmp is named by its file name.                          *)

\* pages of a listing, and keys of a page
MaxPages == 2
MaxKeys == 2

\* os.path.basename(key)
Basename(key) == key[Len(key)]

\* tmp_path = f"/tmp/{filename}"
TmpPath(filename) == <<"/tmp", filename>>

\* a path of /tmp where there is no file
Missing == [ext |-> "", readable |-> FALSE, obs |-> <<>>]

\* the objects of the bucket under the prefix: two of them share the file
\* name, one key names the prefix folder itself
S3Keys ==
    {<<"a", "x.nc4">>, <<"b", "x.nc4">>, <<"a", "y.nc4">>, <<"a", "">>}

\* what a download of the object writes; a/y.nc4 holds no valid
\* concentration
S3Object(key) ==
    CASE key = <<"a", "x.nc4">> -> SubFile({2, 4})
      [] key = <<"b", "x.nc4">> -> SubFile({2, 3, 4})
      [] key = <<"a", "y.nc4">> -> SubFile({1})
      [] OTHER -> Missing

TmpNames == {Basename(k) : k \in S3Keys} \ {""}

\* /tmp at the start: empty, or holding a file from an earlier invocation
\* (x.nc4, or a y.nc4 whose download was cut short)
TmpDirs ==
    {[n \in TmpNames |-> Missing],
     [n \in TmpNames |-> IF n = "x.nc4" THEN SubFile({3, 4}) ELSE Missing],
     [n \in TmpNames |-> IF n = "y.nc4" THEN Unreadable ELSE Missing]}

\* a page of list_objects_v2: without "Contents", or with some keys
NoContents == [has_contents |-> FALSE, contents |-> <<>>]
Page(keys) == [has_contents |-> TRUE, contents |-> keys]

Pages ==
    {NoContents} \cup
        {Page(ks) : ks \in {s \in UNION {[1..n -> S3Keys] : n \in 1..MaxKeys} :
                               \A i, j \in 1..Len(s) : i # j => s[i] # s[j]}}

\* the keys of the pages ps, in order
RECURSIVE KeysOf(_)
KeysOf(ps) == IF ps = <<>> THEN <<>> ELSE Head(ps).contents \o KeysOf(Tail(ps))

\* a listing names no key twice
Listings ==
    {ps \in UNION {[1..n -> Pages] : n \in 0..MaxPages} :
        \A i, j \in 1..Len(KeysOf(ps)) : i # j => KeysOf(ps)[i] # KeysOf(ps)[j]}

PipelineInit ==
    /\ entry = "lambda_function"
    /\ input = <<>>
    /\ file_paths = <<>>
    /\ pc = "download"
    /\ cur = 0
    /\ results = <<>>
    /\ last = NoGrid
    /\ response = NoResponse
    /\ raised = FALSE
    /\ listing \in Listings
    /\ tmp \in TmpDirs
    /\ downloaded_files = <<>>
    /\ dpc = "start"
    /\ at = <<0, 0>>
    /\ ServiceIdle
    /\ ThreadsIdle

\* lines 38-55: retrieve_credentials and the paginator; an exception of
\* retrieve_credentials leaves both handlers
RetrieveCredentials ==
    /\ dpc = "start"
    /\ \/ /\ dpc' = "pages"
          /\ at' = <<1, 1>>
          /\ UNCHANGED <<pc, raised>>
       \/ /\ dpc' = "raised"
          /\ raised' = TRUE
          /\ pc' = "done"
          /\ UNCHANGED at
    /\ UNCHANGED <<svcVars, threads, listing, tmp, downloaded_files, entry,
                   input, file_paths, cur, results, last, response>>

\* lines 57-59 and the end of the inner loop: a page without "Contents" is
\* skipped, a page whose objects are done is left
NextPage ==
    /\ dpc = "pages"
    /\ at[1] <= Len(listing)
    /\ \/ ~listing[at[1]].has_contents
       \/ at[2] > Len(listing[at[1]].contents)
    /\ at' = <<at[1] + 1, 1>>
    /\ UNCHANGED <<gridVars, svcVars, threads, listing, tmp, downloaded_files,
                   dpc>>

\* lines 61-92: one object of the page.  A key without file name is
\* skipped; a file that exists in /tmp is not downloaded and its path is
\* appended; otherwise the object is downloaded to /tmp and its path
\* appended, or the download raises
DownloadObject ==
    /\ dpc = "pages"
    /\ at[1] <= Len(listing)
    /\ listing[at[1]].has_contents
    /\ at[2] <= Len(listing[at[1]].contents)
    /\ LET key == listing[at[1]].contents[at[2]]
           filename == Basename(key)
           tmp_path == TmpPath(filename)
       IN  IF filename = ""
           THEN /\ at' = <<at[1], at[2] + 1>>
                /\ UNCHANGED <<tmp, downloaded_files, dpc, pc, raised>>
           ELSE IF tmp[filename] # Missing
           THEN /\ downloaded_files' = Append(downloaded_files, tmp_path)
                /\ at' = <<at[1], at[2] + 1>>
                /\ UNCHANGED <<tmp, dpc, pc, raised>>
           ELSE \/ /\ tmp' = [tmp EXCEPT ![filename] = S3Object(key)]
                   /\ downloaded_files' = Append(downloaded_files, tmp_path)
                   /\ at' = <<at[1], at[2] + 1>>
                   /\ UNCHANGED <<dpc, pc, raised>>
                \/ /\ dpc' = "raised"
                   /\ raised' = TRUE
                   /\ pc' = "done"
                   /\ UNCHANGED <<tmp, downloaded_files, at>>
    /\ UNCHANGED <<svcVars, threads, listing, entry, input, file_paths, cur,
                   results, last, response>>

\* lines 94-97, and lambda_function.py lines 8-9: downloaded_files is
\* returned to lambda_function.lambda_handler, whose analysis will open
\* the files the paths name
DownloadReturn ==
    /\ dpc = "pages"
    /\ at[1] > Len(listing)
    /\ dpc' = "returned"
    /\ input' = [k \in 1..Len(downloaded_files) |-> tmp[downloaded_files[k][2]]]
    /\ pc' = "start"
    /\ UNCHANGED <<svcVars, threads, listing, tmp, downloaded_files, at, entry,
                   file_paths, cur, results, last, response, raised>>

PipelineNext ==
    \/ RetrieveCredentials
    \/ NextPage
    \/ DownloadObject
    \/ DownloadReturn
    \/ LambdaFunctionHandler
    \/ Analyze
    \/ ProcessFile
    \/ Merge

PipelineSpec == PipelineInit /\ [][PipelineNext]_vars

-----------------------------------------------------------------------------
(* C30 *)

\* C30: in the download-then-analyze pipeline each observation file is
\* aggregated at most once: downloaded_files holds no path twice (also
\* when two S3 keys share a file name or a file exists in /tmp already),
\* and no feature of the output is the same cell of the same file as
\* another feature.
C30_AggregatedOnce ==
    /\ \A i, j \in 1..Len(downloaded_files) :
           i # j => downloaded_files[i] # downloaded_files[j]
    /\ Returned200 =>
           \A k, l \in 1..Len(response.body.features) :
               k # l => response.body.features[k] # response.body.features[l]
====
